---- MODULE Spec2Model ----
(***************************************************************************)
(* Model of the poker room state machine (backend/types/src/room.rs) and   *)
(* of the game service that drives it (backend/src/service/game.rs,        *)
(* backend/src/routes.rs).                                                 *)
(*                                                                         *)
(* A room is a record with the fields of struct Room.  Every method of     *)
(* Room is an operator from a room record to a result record               *)
(*   [res |-> "Ok" | "Err" | "Panic", r |-> the room afterwards,           *)
(*    v |-> the returned value, msg |-> the error text]                    *)
(* so that a `?` in the source is "return the Err result, keeping the      *)
(* mutations made so far".  While a handler runs, the room record carries  *)
(* one extra field, log, the list of things the handler did that the       *)
(* state does not show afterwards (events emitted, pots built by           *)
(* end_stage); it is split off again when the handler returns.             *)
(*                                                                         *)
(* Cards are abstracted to what the state machine reads of them: the deck  *)
(* is the number of cards left in it, community_cards the number of cards  *)
(* on the table, a hand is present or absent, and the evaluator's ranking  *)
(* of the players' hands is an input of the handler that reaches showdown. *)
(***************************************************************************)
EXTENDS Integers, Sequences, FiniteSets, TLC

\* ---------------------------------------------------------------- bounds
NumUsers == 3
MaxBuyIn == 3
MaxRaise == 2
MaxEval == 2
MaxJoins == 3
MaxHands == 1
InitBalance == 3
\* the scenarios that need a user to come back, a sixth user, or a second hand
RejoinJoins == 4
CrowdUsers == 6
SecondHand == 2
\* how far from either end of its range the random number of Deck::draw is
\* taken
RngSpread == 1
\* how many of the last room snapshots sent are remembered
WireLen == 2
\* the timestamps and contents of the payloads a client is sent, and how many
\* it reads
MaxStamp == 3
MaxData == 2
MaxArrivals == 3
\* the worker threads of the runtime
Workers == 2

\* ------------------------------------------------------ program constants
MAX_NUM_OF_PLAYERS == 5
SMALL_BLIND == 1
BIG_BLIND == 2
FULL_DECK == 52
WORST == 0
WORD_BITS == 64

\* The u32 value 2^32 - 1.  TLC's integers are 32-bit signed, so the value is
\* written as a token that only U32AddOverflows and U32Le interpret; every
\* other amount of the model is far below 2^31.
U32_MAX == -1

None == 0

Users == 1..NumUsers
BuyIns == 1..MaxBuyIn
Evals == 1..MaxEval

NoAct == [type |-> "None", amount |-> 0]
Plain(types) == {[type |-> t, amount |-> 0] : t \in types}
Raises(amounts) == {[type |-> "Raise", amount |-> n] : n \in amounts}
Actions ==
    Plain({"Fold", "Check", "Call", "AllIn"}) \cup Raises((1..MaxRaise) \cup {U32_MAX})

BettingStages == {"PreFlop", "Flop", "Turn", "River"}
ShowdownStages == {"Showdown(true)", "Showdown(false)"}

\* room, balance and current_room are the program's state; log and result tell
\* what the last handler did; joins and hands count, and scenario holds the
\* inputs and limits the behaviour is explored with (it never changes).
\* hand_total is the amount of chips the seated players held when the current
\* hand started.
\* deck is a Deck of its own, drawn from until it fails: word is the set of the
\* 1 bits of its u64, drawn the cards returned, draws their number, res and
\* msg the result of the last draw.
\* lock is the set of the users whose handler holds the room lock, pending
\* what each of them has still to send, version the number of handlers that
\* changed the room since the lock was last free, and wire the versions of the
\* last room snapshots sent.
\* client is the state of one client: cell holds, for each stream, the payload
\* it keeps (its Option, a sequence of at most one payload), and received the
\* payloads it has read from the stream since the cell was last reset.
\* requests tells, for each user, where a request of theirs that has not yet
\* the room is: "admitted" once Api::take_action has found the user in the
\* room, "blocked" while it waits in get_mut_lock, "none" otherwise.
VARIABLES room, log, result, balance, current_room, joins, hands, hand_total,
          scenario, deck, lock, pending, version, wire, client, requests

vars == <<room, log, result, balance, current_room, joins, hands, hand_total,
          scenario, deck, lock, pending, version, wire, client, requests>>

\* the state of the handlers in progress
tasks == <<lock, pending, version, wire, requests>>

\* --------------------------------------------------------------- helpers
Ok(r, v) == [res |-> "Ok", r |-> r, v |-> v, msg |-> ""]
Err(r, m) == [res |-> "Err", r |-> r, v |-> None, msg |-> m]
Panic(r, m) == [res |-> "Panic", r |-> r, v |-> None, msg |-> m]
IsOk(x) == x.res = "Ok"

\* the `?` of the source: go on with an Ok result, return any other as it is
Then(x, next(_)) == IF IsOk(x) THEN next(x) ELSE x

Min(S) == CHOOSE x \in S : \A y \in S : x <= y
Max(S) == CHOOSE x \in S : \A y \in S : x >= y

RECURSIVE SumOver(_, _)
SumOver(S, f) ==
    IF S = {} THEN 0
    ELSE LET x == CHOOSE y \in S : TRUE IN f[x] + SumOver(S \ {x}, f)

\* sum of the numbers of a sequence
SumSeq(s) == SumOver(DOMAIN s, s)

Retain(s, keep(_)) == SelectSeq(s, keep)

\* first index of s satisfying test, or 0
FirstIndex(s, test(_)) ==
    IF \E i \in 1..Len(s) : test(s[i])
    THEN Min({i \in 1..Len(s) : test(s[i])})
    ELSE 0

U32AddOverflows(a, b) == (a = U32_MAX /\ b >= 1) \/ (b = U32_MAX /\ a >= 1)
U32Le(a, b) == IF b = U32_MAX THEN TRUE ELSE IF a = U32_MAX THEN FALSE ELSE a <= b

\* `n as u32` on an i64: n modulo 2^32.  A value from 0 to 2^31 - 1 is kept
\* and -1 becomes u32::MAX; no other value is sent in the behaviours here.
AsU32(n) ==
    CASE n >= 0 -> n
      [] n = -1 -> U32_MAX

\* ---------------------------------------------------------------- Player
\* the socket of the connection of a user: every user has one
SidOf(user_id) == [socket |-> user_id]

NewPlayer(id, buy_in) ==
    [id |-> id, hand |-> FALSE, chips |-> buy_in, bet |-> 0,
     has_folded |-> FALSE, position |-> "Normal", has_taken_turn |-> FALSE,
     sid |-> SidOf(id), is_connected |-> TRUE, last_action |-> NoAct]

\* Player::bet_amount, on the player at seat i
bet_amount(r, i, amount) ==
    IF ~U32Le(amount, r.players[i].chips)
    THEN Err(r, "does not have enough chips")
    ELSE Ok([r EXCEPT !.players[i].bet = @ + amount,
                      !.players[i].chips = @ - amount], None)

\* derive(Ord) on enum Position: the declaration order
PositionOrd(p) ==
    CASE p = "Normal" -> 0
      [] p = "BigBlind" -> 1
      [] p = "SmallBlind" -> 2
      [] p = "DealerAndSmallBlind" -> 3
      [] p = "Dealer" -> 4

is_dealer(p) == p \in {"Dealer", "DealerAndSmallBlind"}

\* ------------------------------------------------------------------ Room
NewRoom ==
    [players |-> <<>>, deck |-> FULL_DECK, community_cards |-> 0,
     stage |-> "NotEnoughPlayers", pots |-> <<>>,
     player_joining_next_round |-> <<>>, player_in_turn |-> None]

Logged(r, e) == [r EXCEPT !.log = Append(@, e)]

max_bet(r) ==
    IF r.players = <<>> THEN 0
    ELSE Max({r.players[i].bet : i \in 1..Len(r.players)})

Countable(p) == p.is_connected /\ p.chips > 0

player_count(r) ==
    Len(SelectSeq(r.players, Countable))
    + Len(SelectSeq(r.player_joining_next_round, Countable))

is_joinable(r) == player_count(r) < MAX_NUM_OF_PLAYERS

\* seat_players, were the players without chips kept in their seats
seat_players_broke(r) ==
    [r EXCEPT !.players = Retain(r.players, LAMBDA p : p.is_connected)
                          \o Retain(r.player_joining_next_round, Countable),
              !.player_joining_next_round = <<>>]

seat_players(r) ==
    [r EXCEPT !.players = Retain(r.players, Countable)
                          \o Retain(r.player_joining_next_round, Countable),
              !.player_joining_next_round = <<>>]

reset_table(r) ==
    [seat_players(r) EXCEPT !.pots = <<>>, !.community_cards = 0,
                            !.deck = FULL_DECK, !.player_in_turn = None]

PotTotal(r) == SumSeq([i \in 1..Len(r.pots) |-> r.pots[i].amount])
SeatedTotal(r) ==
    SumSeq([i \in 1..Len(r.players) |-> r.players[i].chips + r.players[i].bet])

\* seat (1-based) that gets the i-th position counted from the dealer, i = 0..
readjust_positions(r, dealer_position) ==
    LET n == Len(r.players)
        offset(k) == (k - dealer_position + n) % n
        pos(k) ==
            IF n > 2
            THEN CASE offset(k) = 0 -> "Dealer"
                   [] offset(k) = 1 -> "SmallBlind"
                   [] offset(k) = 2 -> "BigBlind"
                   [] OTHER -> "Normal"
            ELSE CASE offset(k) = 0 -> "DealerAndSmallBlind"
                   [] OTHER -> "BigBlind"
    IN  [r EXCEPT !.players = [k \in 1..n |-> [r.players[k] EXCEPT !.position = pos(k)]]]

\* try_for_each over the seats from seat i on: stops at the first Err
RECURSIVE apply_binds_from(_, _)
apply_binds_from(r, i) ==
    IF i > Len(r.players) THEN Ok(r, None)
    ELSE LET p == r.players[i]
             b == CASE p.position = "BigBlind" -> bet_amount(r, i, BIG_BLIND)
                    [] p.position \in {"SmallBlind", "DealerAndSmallBlind"} ->
                           bet_amount(r, i, SMALL_BLIND)
                    [] OTHER -> Ok(r, None)
         IN  IF IsOk(b) THEN apply_binds_from(b.r, i + 1) ELSE b

apply_binds(r) == apply_binds_from(r, 1)

Eligible(p) == ~p.has_folded /\ p.chips > 0

\* first eligible seat clockwise after seat curr (curr itself is tried last)
next_player_after(r, curr) ==
    LET n == Len(r.players)
        seat(k) == ((curr - 1 + k) % n) + 1
        ks == {k \in 1..n : Eligible(r.players[seat(k)])}
    IN  IF ks = {} THEN Err(r, "No players to act")
        ELSE Ok(r, r.players[seat(Min(ks))].id)

player_to_act_first(r) ==
    LET idx == IF r.stage = "PreFlop"
               THEN FirstIndex(r.players, LAMBDA p : p.position = "BigBlind")
               ELSE FirstIndex(r.players, LAMBDA p : is_dealer(p.position))
    IN  IF r.stage = "NotEnoughPlayers" THEN Panic(r, "unreachable")
        ELSE IF idx = 0
        THEN Err(r, IF r.stage = "PreFlop" THEN "Big blind not found"
                    ELSE "Dealer not found")
        ELSE next_player_after(r, idx)

\* Deck::draw, n times: the deck is the count of the cards left; the draw
\* from an empty deck panics in gen_range
draw(r, n) ==
    IF r.deck < n THEN Panic([r EXCEPT !.deck = 0], "cannot sample empty range")
    ELSE Ok([r EXCEPT !.deck = @ - n], None)

set_turn_to_first_actor(r) ==
    Then(player_to_act_first(r),
         LAMBDA f : Ok([r EXCEPT !.player_in_turn = f.v], None))

\* assign_positions, were the dealer never moved
assign_positions_fixed(r2) ==
    LET n == Len(r2.players)
        \* rev().max_by(): the lowest seat among those of the highest position
        top == Max({PositionOrd(r2.players[k].position) : k \in 1..n})
        dealer_seat == Min({k \in 1..n : PositionOrd(r2.players[k].position) = top})
        next_dealer_seat ==
            dealer_seat
    IN  IF n = 0 THEN Err(r2, "No players")
        ELSE Then(apply_binds(Logged(readjust_positions(r2, next_dealer_seat),
                                     [ev |-> "start_game",
                                      total |-> SeatedTotal(r2)])),
                  LAMBDA b : set_turn_to_first_actor(b.r))

\* start_game from "find the next dealer" on: r2 is the room with the hands
\* dealt
assign_positions(r2) ==
    LET n == Len(r2.players)
        \* rev().max_by(): the lowest seat among those of the highest position
        top == Max({PositionOrd(r2.players[k].position) : k \in 1..n})
        dealer_seat == Min({k \in 1..n : PositionOrd(r2.players[k].position) = top})
        next_dealer_seat ==
            IF is_dealer(r2.players[dealer_seat].position)
            THEN (dealer_seat % n) + 1
            ELSE dealer_seat
    IN  IF n = 0 THEN Err(r2, "No players")
        ELSE Then(apply_binds(Logged(readjust_positions(r2, next_dealer_seat),
                                     [ev |-> "start_game",
                                      total |-> SeatedTotal(r2)])),
                  LAMBDA b : set_turn_to_first_actor(b.r))

\* the loop of start_game over the seats: bets and flags reset, two cards each
deal_hands(r1) ==
    Then(draw(r1, 2 * Len(r1.players)),
         LAMBDA d : Ok([d.r EXCEPT !.players =
                          [k \in 1..Len(r1.players) |-> [r1.players[k] EXCEPT
                               !.bet = 0, !.has_folded = FALSE,
                               !.has_taken_turn = FALSE, !.hand = TRUE]]], None))

start_game(r) ==
    Then(deal_hands(reset_table(r)), LAMBDA h : assign_positions(h.r))

\* deal_community_card, with a flop of two cards
deal_community_card_short(r, stage) ==
    CASE stage = "Flop" ->
           Then(draw(r, 3),
                LAMBDA d : Ok([d.r EXCEPT !.community_cards = @ + 2], None))
      [] stage \in {"Turn", "River"} ->
           Then(draw(r, 2),
                LAMBDA d : Ok([d.r EXCEPT !.community_cards = @ + 1], None))
      [] OTHER -> Err(r, "Invalid stage to deal community card")

\* one card is burnt before the cards are dealt
deal_community_card(r, stage) ==
    CASE stage = "Flop" ->
           Then(draw(r, 4),
                LAMBDA d : Ok([d.r EXCEPT !.community_cards = @ + 3], None))
      [] stage \in {"Turn", "River"} ->
           Then(draw(r, 2),
                LAMBDA d : Ok([d.r EXCEPT !.community_cards = @ + 1], None))
      [] OTHER -> Err(r, "Invalid stage to deal community card")

RECURSIVE deal_all(_, _)
deal_all(r, stages) ==
    IF stages = <<>> THEN Ok(r, None)
    ELSE Then(deal_community_card(r, Head(stages)),
              LAMBDA d : deal_all(d.r, Tail(stages)))

\* first seat clockwise after the dealer whose player is in player_ids
closest_to_dealer(r, player_ids) ==
    LET n == Len(r.players)
        dealer_index == FirstIndex(r.players, LAMBDA p : is_dealer(p.position))
        seat(k) == ((dealer_index - 1 + k) % n) + 1
        ks == {k \in 1..n : r.players[seat(k)].id \in player_ids}
    IN  IF dealer_index = 0 THEN Err(r, "Dealer not found")
        ELSE IF ks = {} THEN Err(r, "No players found")
        ELSE Ok(r, r.players[seat(Min(ks))].id)

\* winners: sequence of [amount, players]; the result's v is the list of the
\* winnings of each entry, each the list of the seats paid, in seat order
RECURSIVE split_pot_from(_, _, _)
split_pot_from(r, winners, pot_splits) ==
    IF winners = <<>> THEN [Ok(r, None) EXCEPT !.v = pot_splits]
    ELSE LET amount == Head(winners).amount
             winner_ids == Head(winners).players
             k == Cardinality(winner_ids)
             earnings == amount \div k
             remainder == amount % k
             r1 == [r EXCEPT !.players =
                       [i \in 1..Len(r.players) |->
                          IF r.players[i].id \in winner_ids
                          THEN [r.players[i] EXCEPT !.chips = @ + earnings]
                          ELSE r.players[i]]]
             c == closest_to_dealer(r1, winner_ids)
             seat == FirstIndex(r1.players, LAMBDA p : p.id = c.v)
             r2 == [r1 EXCEPT !.players[seat].chips = @ + remainder]
             paid == SelectSeq(r.players, LAMBDA p : p.id \in winner_ids)
             first == FirstIndex(paid, LAMBDA p : p.id = c.v)
             winnings == [i \in 1..Len(paid) |->
                            [player |-> paid[i].id,
                             amount |-> IF i = first THEN earnings + remainder
                                        ELSE earnings]]
         IN  IF k = 0 THEN Panic(r, "attempt to divide by zero")
             ELSE IF ~IsOk(c) THEN [c EXCEPT !.r = r1]
             ELSE split_pot_from(r2, Tail(winners), Append(pot_splits, winnings))

split_pot(r, winners) == split_pot_from(r, winners, <<>>)

NotFolded(p) == ~p.has_folded
HasChips(p) == p.chips > 0

\* proceed_type, were the cards dealt for a single player left
proceed_type_dealing(r) ==
    LET players_in_play == SelectSeq(r.players, NotFolded)
        remaining_players == SelectSeq(players_in_play, HasChips)
        bets == {remaining_players[i].bet : i \in 1..Len(remaining_players)}
    IN  CASE Len(players_in_play) = 0 -> "Panic"
          [] Len(players_in_play) = 1 -> "ShowdownWithDealing"
          [] OTHER ->
               CASE Len(remaining_players) = 0 -> "ShowdownWithDealing"
                 [] Len(remaining_players) = 1 ->
                      IF remaining_players[1].bet = max_bet(r)
                      THEN "ShowdownWithDealing" ELSE "NoAction"
                 [] OTHER ->
                      IF (\A i \in 1..Len(remaining_players) :
                              remaining_players[i].has_taken_turn)
                         /\ Cardinality(bets) = 1
                      THEN "Normal" ELSE "NoAction"

proceed_type(r) ==
    LET players_in_play == SelectSeq(r.players, NotFolded)
        remaining_players == SelectSeq(players_in_play, HasChips)
        bets == {remaining_players[i].bet : i \in 1..Len(remaining_players)}
    IN  CASE Len(players_in_play) = 0 -> "Panic"
          [] Len(players_in_play) = 1 -> "ShowdownWithoutDealing"
          [] OTHER ->
               CASE Len(remaining_players) = 0 -> "ShowdownWithDealing"
                 [] Len(remaining_players) = 1 ->
                      IF remaining_players[1].bet = max_bet(r)
                      THEN "ShowdownWithDealing" ELSE "NoAction"
                 [] OTHER ->
                      IF (\A i \in 1..Len(remaining_players) :
                              remaining_players[i].has_taken_turn)
                         /\ Cardinality(bets) = 1
                      THEN "Normal" ELSE "NoAction"

can_proceed_to_next_stage(r) ==
    CASE r.stage = "NotEnoughPlayers" ->
           IF Len(r.players) >= 2 THEN "Normal" ELSE "NoAction"
      [] r.stage \in ShowdownStages -> "Normal"
      [] OTHER -> proceed_type(r)

can_proceed(pt) ==
    pt \in {"Normal", "ShowdownWithDealing", "ShowdownWithoutDealing"}

\* stable sort of [id, bet] entries, highest bet first
RECURSIVE InsertDesc(_, _)
InsertDesc(s, e) ==
    IF s = <<>> THEN <<e>>
    ELSE IF Head(s).bet >= e.bet THEN <<Head(s)>> \o InsertDesc(Tail(s), e)
    ELSE <<e>> \o s

RECURSIVE SortDesc(_)
SortDesc(s) ==
    IF s = <<>> THEN <<>>
    ELSE InsertDesc(SortDesc(SubSeq(s, 1, Len(s) - 1)), s[Len(s)])

\* the while loop of end_stage: one pot per layer of the smallest remaining bet
RECURSIVE peel(_, _)
peel(bets, pots) ==
    IF bets = <<>> THEN pots
    ELSE LET smallest_bet == bets[Len(bets)].bet
             pot == [amount |-> smallest_bet * Len(bets),
                     players |-> {bets[i].id : i \in 1..Len(bets)}]
             rest == [i \in 1..Len(bets) |->
                         [bets[i] EXCEPT !.bet = @ - smallest_bet]]
         IN  peel(SelectSeq(rest, LAMBDA b : b.bet > 0), Append(pots, pot))

\* merge, with every pot kept apart
merge_apart(new_pots, pots) == new_pots \o pots

\* merge consecutive pots with the same players
RECURSIVE merge(_, _)
merge(new_pots, pots) ==
    IF pots = <<>> THEN new_pots
    ELSE LET last == new_pots[Len(new_pots)]
         IN  IF last.players = Head(pots).players
             THEN merge([new_pots EXCEPT ![Len(new_pots)].amount =
                                            @ + Head(pots).amount], Tail(pots))
             ELSE merge(Append(new_pots, Head(pots)), Tail(pots))

PlayerBets(r) ==
    LET seated == SelectSeq(r.players, LAMBDA p : p.bet > 0)
    IN  [i \in 1..Len(seated) |-> [id |-> seated[i].id, bet |-> seated[i].bet]]

\* end_stage once the bets are peeled into pots1: merge, store, reset the seats
collect_pots(r, pots1) ==
    IF pots1 = <<>> THEN Err(r, "No pots")
    ELSE Ok(Logged([r EXCEPT !.pots = merge(<<Head(pots1)>>, Tail(pots1)),
                             !.players = [i \in 1..Len(r.players) |->
                                 [r.players[i] EXCEPT !.has_taken_turn = FALSE,
                                                      !.bet = 0,
                                                      !.last_action = NoAct]]],
                    [ev |-> "end_stage", stage |-> r.stage,
                     before |-> r.pots, bets |-> PlayerBets(r),
                     after |-> merge(<<Head(pots1)>>, Tail(pots1))]), None)

end_stage(r) ==
    IF r.stage \notin BettingStages THEN Ok(r, None)
    ELSE collect_pots(r, peel(SortDesc(PlayerBets(r)), r.pots))

\* next_stage, were every forced showdown one without dealing
next_stage_undealt(r1, pt) ==
    CASE pt = "NoAction" -> Panic(r1, "unreachable")
      [] pt = "ShowdownWithoutDealing" ->
             Ok([r1 EXCEPT !.stage = "Showdown(false)"], None)
      [] pt = "ShowdownWithDealing" ->
             Ok([r1 EXCEPT !.stage = "Showdown(false)"], None)
      [] OTHER ->
         CASE r1.stage \in ShowdownStages ->
                Ok([seat_players(r1) EXCEPT !.stage =
                       IF Len(seat_players(r1).players) >= 2 THEN "PreFlop"
                       ELSE "NotEnoughPlayers"], None)
           [] r1.stage = "NotEnoughPlayers" ->
                IF Len(r1.players) >= 2
                THEN Ok([r1 EXCEPT !.stage = "PreFlop"], None)
                ELSE Panic(r1, "unreachable")
           [] r1.stage = "PreFlop" -> Ok([r1 EXCEPT !.stage = "Flop"], None)
           [] r1.stage = "Flop" -> Ok([r1 EXCEPT !.stage = "Turn"], None)
           [] r1.stage = "Turn" -> Ok([r1 EXCEPT !.stage = "River"], None)
           [] r1.stage = "River" ->
                Ok([r1 EXCEPT !.stage = "Showdown(true)"], None)

\* next_stage, were the flop skipped
next_stage_skipping(r1, pt) ==
    CASE pt = "NoAction" -> Panic(r1, "unreachable")
      [] pt = "ShowdownWithoutDealing" ->
             Ok([r1 EXCEPT !.stage = "Showdown(false)"], None)
      [] pt = "ShowdownWithDealing" ->
             Ok([r1 EXCEPT !.stage = "Showdown(true)"], None)
      [] OTHER ->
         CASE r1.stage \in ShowdownStages ->
                Ok([seat_players(r1) EXCEPT !.stage =
                       IF Len(seat_players(r1).players) >= 2 THEN "PreFlop"
                       ELSE "NotEnoughPlayers"], None)
           [] r1.stage = "NotEnoughPlayers" ->
                IF Len(r1.players) >= 2
                THEN Ok([r1 EXCEPT !.stage = "PreFlop"], None)
                ELSE Panic(r1, "unreachable")
           [] r1.stage = "PreFlop" -> Ok([r1 EXCEPT !.stage = "Turn"], None)
           [] r1.stage = "Flop" -> Ok([r1 EXCEPT !.stage = "Turn"], None)
           [] r1.stage = "Turn" -> Ok([r1 EXCEPT !.stage = "River"], None)
           [] r1.stage = "River" ->
                Ok([r1 EXCEPT !.stage = "Showdown(true)"], None)

\* the match of proceed_to_next_stage on (stage, proceed type)
next_stage(r1, pt) ==
    CASE pt = "NoAction" -> Panic(r1, "unreachable")
      [] pt = "ShowdownWithoutDealing" ->
             Ok([r1 EXCEPT !.stage = "Showdown(false)"], None)
      [] pt = "ShowdownWithDealing" ->
             Ok([r1 EXCEPT !.stage = "Showdown(true)"], None)
      [] OTHER ->
         CASE r1.stage \in ShowdownStages ->
                Ok([seat_players(r1) EXCEPT !.stage =
                       IF Len(seat_players(r1).players) >= 2 THEN "PreFlop"
                       ELSE "NotEnoughPlayers"], None)
           [] r1.stage = "NotEnoughPlayers" ->
                IF Len(r1.players) >= 2
                THEN Ok([r1 EXCEPT !.stage = "PreFlop"], None)
                ELSE Panic(r1, "unreachable")
           [] r1.stage = "PreFlop" -> Ok([r1 EXCEPT !.stage = "Flop"], None)
           [] r1.stage = "Flop" -> Ok([r1 EXCEPT !.stage = "Turn"], None)
           [] r1.stage = "Turn" -> Ok([r1 EXCEPT !.stage = "River"], None)
           [] r1.stage = "River" ->
                Ok([r1 EXCEPT !.stage = "Showdown(true)"], None)

proceed_to_next_stage(r, pt) ==
    Then(end_stage(r), LAMBDA e : next_stage(e.r, pt))

Returning(x, v) == IF IsOk(x) THEN [x EXCEPT !.v = v] ELSE x

\* deal_remaining, were the river left out
deal_remaining_but_river(r) ==
    CASE r.community_cards = 0 -> deal_all(r, <<"Flop", "Turn">>)
      [] r.community_cards = 3 -> deal_all(r, <<"Turn">>)
      [] r.community_cards \in {4, 5} -> Ok(r, None)
      [] OTHER -> Err(r, "Invalid number of community cards")

\* the community cards a showdown still has to deal
deal_remaining(r) ==
    CASE r.community_cards = 0 -> deal_all(r, <<"Flop", "Turn", "River">>)
      [] r.community_cards = 3 -> deal_all(r, <<"Turn", "River">>)
      [] r.community_cards = 4 -> deal_all(r, <<"River">>)
      [] r.community_cards = 5 -> Ok(r, None)
      [] OTHER -> Err(r, "Invalid number of community cards")

setup_stage(r) ==
    CASE r.stage = "NotEnoughPlayers" -> Ok(reset_table(r), "NoAction")
      [] r.stage = "PreFlop" -> Returning(start_game(r), "PlayerReceiveCards")
      [] r.stage \in {"Flop", "Turn", "River"} ->
           Then(deal_community_card(r, r.stage),
                LAMBDA d : Returning(set_turn_to_first_actor(d.r), "NoAction"))
      [] r.stage = "Showdown(true)" ->
           Then(deal_remaining(r),
                LAMBDA d : Ok([d.r EXCEPT !.player_in_turn = None], "FindWinners"))
      [] r.stage = "Showdown(false)" ->
           Ok([r EXCEPT !.player_in_turn = None], "FindWinners")

\* pass_turn, were the turn left with the player who acted
pass_turn_kept(r, current_player_index) ==
    IF current_player_index = 0 THEN Err(r, "Player not found")
    ELSE Ok(r, "NoAction")

\* the else branch of proceed: the turn passes to the next player
pass_turn(r, current_player_index) ==
    IF current_player_index = 0 THEN Err(r, "Player not found")
    ELSE Then(next_player_after(r, current_player_index),
              LAMBDA nx : Ok([r EXCEPT !.player_in_turn = nx.v], "NoAction"))

\* proceed, given the proceed type pt of the room
proceed_as(r, pt) ==
    IF pt = "Panic" THEN Panic(r, "unreachable")
    ELSE IF can_proceed(pt)
    THEN Then(proceed_to_next_stage(r, pt), LAMBDA n : setup_stage(n.r))
    ELSE IF r.stage = "NotEnoughPlayers" THEN Ok(r, "NoAction")
    ELSE pass_turn(r, FirstIndex(r.players, LAMBDA p : p.id = r.player_in_turn))

proceed(r) == proceed_as(r, can_proceed_to_next_stage(r))

\* the match of take_action on the action, for the player at seat; r1 is the
\* room with the action recorded
apply_action(r1, seat, player, maxbet, action, overflow_checks) ==
    CASE action.type = "Fold" ->
           Ok([r1 EXCEPT !.players[seat].has_folded = TRUE], None)
      [] action.type = "Check" ->
           IF player.bet < maxbet THEN Err(r1, "Player must call or raise")
           ELSE Ok(r1, None)
      [] action.type = "Call" ->
           IF player.bet > maxbet
           THEN \* max_bet - player.bet underflows
                IF overflow_checks
                THEN Panic(r1, "attempt to subtract with overflow")
                ELSE bet_amount(r1, seat, U32_MAX)
           ELSE bet_amount(r1, seat, maxbet - player.bet)
      [] action.type = "Raise" ->
           IF U32AddOverflows(action.amount, player.bet)
           THEN IF overflow_checks
                THEN Panic(r1, "attempt to add with overflow")
                ELSE \* the sum wraps to player.bet - 1
                     IF player.bet - 1 >= maxbet
                     THEN bet_amount(r1, seat, action.amount)
                     ELSE Err(r1, "Invalid raise amount")
           ELSE IF U32Le(maxbet, IF action.amount = U32_MAX THEN U32_MAX
                                 ELSE action.amount + player.bet)
                THEN bet_amount(r1, seat, action.amount)
                ELSE Err(r1, "Invalid raise amount")
      [] action.type = "AllIn" -> bet_amount(r1, seat, player.chips)

\* the highest bet among the players who have not folded
max_bet_in_play(in_play) ==
    IF in_play = <<>> THEN 0
    ELSE Max({in_play[i].bet : i \in 1..Len(in_play)})

\* take_action for the player found at seat
act_at(r, seat, action, overflow_checks) ==
    IF seat = 0 THEN Err(r, "Player not found")
    ELSE Then(apply_action([r EXCEPT !.players[seat].last_action = action],
                           seat, r.players[seat],
                           max_bet_in_play(SelectSeq(r.players, NotFolded)),
                           action, overflow_checks),
              LAMBDA a : proceed([a.r EXCEPT !.players[seat].has_taken_turn = TRUE]))

\* take_action, were the turn not looked at
take_action_unchecked(r, player_id, action, overflow_checks) ==
    act_at(r, FirstIndex(r.players, LAMBDA p : p.id = player_id),
           action, overflow_checks)

\* overflow_checks: whether the build panics on integer overflow (debug) or
\* wraps (release)
take_action(r, player_id, action, overflow_checks) ==
    IF r.player_in_turn # player_id THEN Err(r, "Not player's turn")
    ELSE act_at(r, FirstIndex(r.players, LAMBDA p : p.id = player_id),
                action, overflow_checks)

join_player(r, player) ==
    IF ~is_joinable(r) THEN Err(r, "RoomIsFull")
    ELSE IF r.stage = "NotEnoughPlayers"
    THEN proceed([r EXCEPT !.players = Append(@, player)])
    ELSE Ok([r EXCEPT !.player_joining_next_round = Append(@, player)], "NoAction")

\* leave_player, were the connection flag flipped rather than cleared
leave_player_flipped(r, player_id) ==
    LET all == r.players \o r.player_joining_next_round
        k == FirstIndex(all, LAMBDA p : p.id = player_id)
        chips == IF k = 0 THEN 0 ELSE all[k].chips
        gone(s) == [i \in 1..Len(s) |->
                      IF s[i].id = player_id
                      THEN [s[i] EXCEPT !.is_connected = ~@, !.has_folded = TRUE]
                      ELSE s[i]]
        r1 == [r EXCEPT !.players = gone(r.players),
                        !.player_joining_next_round = gone(r.player_joining_next_round)]
        r2 == IF \A i \in 1..Len(r1.players) : ~r1.players[i].is_connected
              THEN [reset_table(r1) EXCEPT !.stage = "NotEnoughPlayers"]
              ELSE r1
    IN  [Ok(r2, None) EXCEPT !.v = chips]

\* the result's v is the chips returned to the caller
leave_player(r, player_id) ==
    LET all == r.players \o r.player_joining_next_round
        k == FirstIndex(all, LAMBDA p : p.id = player_id)
        chips == IF k = 0 THEN 0 ELSE all[k].chips
        gone(s) == [i \in 1..Len(s) |->
                      IF s[i].id = player_id
                      THEN [s[i] EXCEPT !.is_connected = FALSE, !.has_folded = TRUE]
                      ELSE s[i]]
        r1 == [r EXCEPT !.players = gone(r.players),
                        !.player_joining_next_round = gone(r.player_joining_next_round)]
        r2 == IF \A i \in 1..Len(r1.players) : ~r1.players[i].is_connected
              THEN [reset_table(r1) EXCEPT !.stage = "NotEnoughPlayers"]
              ELSE r1
    IN  [Ok(r2, None) EXCEPT !.v = chips]

\* ---------------------------------------------------------- game service
\* the room as the callers outside the handler see it
Unlogged(r) ==
    [players |-> r.players, deck |-> r.deck,
     community_cards |-> r.community_cards, stage |-> r.stage,
     pots |-> r.pots,
     player_joining_next_round |-> r.player_joining_next_round,
     player_in_turn |-> r.player_in_turn]

Working(r) ==
    [players |-> r.players, deck |-> r.deck,
     community_cards |-> r.community_cards, stage |-> r.stage,
     pots |-> r.pots,
     player_joining_next_round |-> r.player_joining_next_round,
     player_in_turn |-> r.player_in_turn, log |-> <<>>]

\* the linear scan of all_best_hands over the (unordered) players of a pot
RECURSIVE all_best_hands(_, _, _, _)
all_best_hands(ids, hand, largest, best_hand) ==
    IF ids = {} THEN largest
    ELSE LET x == CHOOSE y \in ids : TRUE
         IN  IF hand[x] > best_hand
             THEN all_best_hands(ids \ {x}, hand, {x}, hand[x])
             ELSE IF hand[x] = best_hand
             THEN all_best_hands(ids \ {x}, hand, largest \cup {x}, best_hand)
             ELSE all_best_hands(ids \ {x}, hand, largest, best_hand)

Reverse(s) == [i \in 1..Len(s) |-> s[Len(s) + 1 - i]]

\* eval: the evaluator's rank of each player's seven cards
find_winners(r, eval) ==
    LET in_play == {r.players[i].id : i \in {j \in 1..Len(r.players) :
                                               ~r.players[j].has_folded}}
        hands_eval == [id \in in_play |-> eval[id]]
        hand_of(pot) == [id \in pot.players |->
                           IF id \in in_play THEN hands_eval[id] ELSE WORST]
        k == FirstIndex(r.players, NotFolded)
        sole_player == IF k = 0 THEN r.players[1] ELSE r.players[k]
        total_pot == PotTotal(r)
        rev == Reverse(r.pots)
    IN  IF r.stage \notin ShowdownStages
        THEN Err(r, "Game is not in the showdown stage yet")
        ELSE IF r.stage = "Showdown(false)"
        THEN IF r.players = <<>> THEN Err(r, "No player left in the game")
             ELSE [Ok(r, None) EXCEPT !.v =
                     [hands_eval |-> <<>>,
                      winners |-> <<[amount |-> total_pot,
                                     players |-> {sole_player.id}]>>]]
        ELSE [Ok(r, None) EXCEPT !.v =
                [hands_eval |-> hands_eval,
                 winners |-> [i \in 1..Len(rev) |->
                    [amount |-> rev[i].amount,
                     players |-> all_best_hands(rev[i].players, hand_of(rev[i]),
                                                {}, WORST)]]]]

RECURSIVE EmitEach(_, _)
EmitEach(r, events) ==
    IF events = <<>> THEN r ELSE EmitEach(Logged(r, Head(events)), Tail(events))

\* from_player, were the cards shown whatever the flag
from_player_open(player, reveal) ==
    [id |-> player.id, chips |-> player.chips, bet |-> player.bet,
     has_folded |-> player.has_folded, position |-> player.position,
     hand |-> IF ~player.hand THEN "Empty" ELSE "Revealed",
     is_connected |-> player.is_connected, last_action |-> player.last_action]

\* PlayerState::from_player
from_player(player, reveal) ==
    [id |-> player.id, chips |-> player.chips, bet |-> player.bet,
     has_folded |-> player.has_folded, position |-> player.position,
     hand |-> IF ~player.hand THEN "Empty"
              ELSE IF reveal THEN "Revealed" ELSE "Hidden",
     is_connected |-> player.is_connected, last_action |-> player.last_action]

\* SharedGameState::from_room
from_room(r, reveal_cards) ==
    [players |-> [i \in 1..Len(r.players) |->
                    from_player(r.players[i], reveal_cards)],
     community_cards |-> r.community_cards,
     pots |-> [i \in 1..Len(r.pots) |-> r.pots[i].amount],
     stage |-> r.stage, current_player |-> r.player_in_turn]

\* the room event sent while handling action: state is what goes on the
\* wire, room the room it is made from
EmitRoom(r, action, reveal) ==
    Logged(r, [ev |-> "emit", event |-> "room", action |-> action,
               reveal |-> reveal, room |-> Unlogged(r),
               state |-> from_room(r, reveal)])

\* one outcome event per pot split, then the empty one that ends the hand
EmitOutcomes(r, pot_splits) ==
    EmitEach(r, [i \in 1..Len(pot_splits) + 1 |->
                   [ev |-> "emit", event |-> "outcome",
                    winnings |-> IF i <= Len(pot_splits)
                                 THEN pot_splits[i] ELSE <<>>]])

\* EmitHands, were the cards sent before the room event that r ends with
EmitHandsEarly(r, dealt) ==
    [r EXCEPT !.log =
        SubSeq(r.log, 1, Len(r.log) - 1)
        \o [i \in 1..Len(dealt) |->
              [ev |-> "emit", event |-> "hand", to |-> dealt[i].sid,
               owner |-> dealt[i].id]]
        \o <<r.log[Len(r.log)]>>]

\* whom to send their cards
EmitHands(r, dealt) ==
    EmitEach(r, [i \in 1..Len(dealt) |->
                   [ev |-> "emit", event |-> "hand", to |-> dealt[i].sid,
                    owner |-> dealt[i].id]])

RECURSIVE service_action_required(_, _, _)
service_action_required(action, r, eval) ==
    CASE action = "NoAction" -> Ok(EmitRoom(r, action, FALSE), None)
      [] action = "PlayerReceiveCards" ->
           Ok(EmitHands(EmitRoom(r, action, FALSE),
                        SelectSeq(r.players, LAMBDA p : p.hand)), None)
      [] action = "FindWinners" ->
           Then(find_winners(r, eval), LAMBDA fw :
           Then(split_pot(EmitRoom(r, action, TRUE), fw.v.winners), LAMBDA sp :
           Then(proceed(EmitOutcomes(sp.r, Reverse(sp.v))), LAMBDA p :
                service_action_required(p.v, p.r, eval))))

\* ------------------------------------------------------------- handlers
Starts(l) == {i \in 1..Len(l) : l[i].ev = "start_game"}
LastStart(l, before) == IF Starts(l) = {} THEN before ELSE l[Max(Starts(l))].total

StartedHands(l) == Cardinality({i \in 1..Len(l) : l[i].ev = "start_game"})

\* A call that returns Err without having touched the room changes no
\* variable: it is a stuttering step, and the actions below leave it out.
Effective(x) == IsOk(x) \/ Unlogged(x.r) # room

\* what a handler leaves behind when it returns x
Returned(op, user, x) ==
    /\ room' = Unlogged(x.r)
    /\ log' = x.r.log
    /\ result' = [op |-> op, user |-> user, res |-> x.res, msg |-> x.msg]
    /\ hands' = hands + StartedHands(x.r.log)
    /\ hand_total' = LastStart(x.r.log, hand_total)
    /\ UNCHANGED <<scenario, deck, client>>

Finish(op, user, x) == Effective(x) /\ Returned(op, user, x)

NoEval == [u \in {} |-> 0]

\* A user who never joined.  Such users are interchangeable, so the next one to
\* join is taken to be the one of the lowest id.
Fresh(u) ==
    /\ ~current_room[u]
    /\ balance[u] = InitBalance
    /\ \A i \in 1..Len(room.players) : room.players[i].id # u
    /\ \A i \in 1..Len(room.player_joining_next_round) :
          room.player_joining_next_round[i].id # u

\* GameService::update_game_state_and_user, from the room lock on
JoinOutcome(r, user_id, buy_in) ==
    Then(join_player(Working(r), NewPlayer(user_id, AsU32(buy_in))),
         LAMBDA j : service_action_required(j.v, j.r, NoEval))

\* an operation on the external store returned an error, after x was done
StoreFailed(x) == [x EXCEPT !.res = "Err", !.msg = "external store"]

\* the end of update_game_state_and_user: s is the outcome of the join and
\* store_ok tells whether update_balance_and_room succeeds
Joined(user_id, buy_in, s, store_ok) ==
    /\ Finish("join", user_id, IF IsOk(s) /\ ~store_ok THEN StoreFailed(s) ELSE s)
    /\ joins' = joins + 1
    /\ IF IsOk(s) /\ store_ok
       THEN /\ balance' = [balance EXCEPT ![user_id] = @ - buy_in]
            /\ current_room' = [current_room EXCEPT ![user_id] = TRUE]
       ELSE UNCHANGED <<balance, current_room>>

\* Api::join_game, GameService::join_player, update_game_state_and_user
JoinGame(user_id, buy_in) ==
    /\ joins < scenario.max_joins
    /\ hands <= scenario.max_hands
    /\ Fresh(user_id) => \A u \in 1..(user_id - 1) : ~Fresh(u)
    /\ buy_in <= balance[user_id]
    /\ \E store_ok \in scenario.store :
          Joined(user_id, buy_in, JoinOutcome(room, user_id, buy_in), store_ok)

\* GameService::take_action, from the room lock on: t is the result of
\* Room::take_action
ActionOutcome(t, eval) ==
    Then(t, LAMBDA a : service_action_required(a.v, a.r, eval))

\* The evaluator is consulted when the action ends in Showdown(true): it ranks
\* the hands of the seated players who have not folded.
EvalInputs(t) ==
    IF IsOk(t) /\ t.v = "FindWinners" /\ t.r.stage = "Showdown(true)"
    THEN [{t.r.players[i].id : i \in {j \in 1..Len(t.r.players) :
                                        ~t.r.players[j].has_folded}} -> Evals]
    ELSE {NoEval}

\* whether the build decides the outcome: some u32 operation of take_action
\* overflows; t is the result of the build that checks
Overflows(t) == t.res = "Panic" /\ t.msg # "unreachable"

\* the handler, for each ranking the evaluator can return
Acted(user_id, t) ==
    \E eval \in EvalInputs(t) :
       Finish("take_action", user_id, ActionOutcome(t, eval))

\* Api::take_action, GameService::take_action
TakeAction(user_id, action, overflow_checks) ==
    /\ hands <= scenario.max_hands
    /\ current_room[user_id]
    /\ room.player_in_turn = user_id
    /\ overflow_checks
          \/ Overflows(take_action(Working(room), user_id, action, TRUE))
    /\ Acted(user_id,
             take_action(Working(room), user_id, action, overflow_checks))
    /\ UNCHANGED <<balance, current_room, joins>>

\* GameService::take_action called for a player who is not the one in turn,
\* whether seated, folded, waiting or not in the room at all
OutOfTurn(user_id, action, overflow_checks) ==
    /\ room.player_in_turn # user_id
    /\ \E eval \in EvalInputs(take_action(Working(room), user_id, action,
                                          overflow_checks)) :
          Returned("take_action", user_id,
                   ActionOutcome(take_action(Working(room), user_id, action,
                                             overflow_checks), eval))
    /\ UNCHANGED <<balance, current_room, joins>>

\* GameService::leave_player_and_update_player, from the room lock on: l is
\* the result of Room::leave_player
LeaveOutcome(l) == service_action_required("NoAction", l.r, NoEval)

\* the chips of the leaver go back to the balance; store_ok tells whether
\* remove_player_and_reimburse_chips succeeds, and nothing is emitted when it
\* does not
Left(user_id, l, store_ok) ==
    /\ Finish("leave", user_id,
              IF store_ok THEN LeaveOutcome(l) ELSE StoreFailed(l))
    /\ IF store_ok
       THEN /\ balance' = [balance EXCEPT ![user_id] = @ + l.v]
            /\ current_room' = [current_room EXCEPT ![user_id] = FALSE]
       ELSE UNCHANGED <<balance, current_room>>
    /\ UNCHANGED joins

\* GameService::leave_player, leave_player_and_update_player
LeavePlayer(user_id) ==
    /\ hands <= scenario.max_hands
    /\ current_room[user_id]
    /\ \E store_ok \in scenario.store :
          Left(user_id, leave_player(Working(room), user_id), store_ok)

\* ------------------------------------------------------------- the deck
\* A u64 is the set of the positions (0 the lowest) of its 1 bits.
\* FULL_DECK_INT = 0x000f_ffff_ffff_ffff
FULL_DECK_INT == 0..(FULL_DECK - 1)

\* Deck::new, before any draw
NewDeck ==
    [word |-> FULL_DECK_INT, drawn |-> {}, draws |-> 0, res |-> "Ok", msg |-> ""]

i_to_rank(i) == i % 13
i_to_suit(i) == i \div 13
Card(position) == [rank |-> i_to_rank(position), suit |-> i_to_suit(position)]

\* count_ones of the bits lo .. hi - 1 of v
count_ones(v, lo, hi) == Cardinality({b \in v : b >= lo /\ b < hi})

\* One step of the select of pos_of_leading_1_bit.  t is the field of the
\* partial sums (d, c, b, a or v itself) that counts the 1 bits among the
\* `width` bits below position s, cut to the mask of the step; st is (s, r).
select(st, v, width, mask) ==
    IF st.r > count_ones(v, st.s - width, st.s) % (mask + 1)
    THEN [s |-> st.s - width,
          r |-> st.r - (count_ones(v, st.s - width, st.s) % (mask + 1))]
    ELSE st

\* position (1 the lowest bit) of the r-th 1 bit of v, counted from the
\* highest bit
pos_of_leading_1_bit(r, v) ==
    IF v = {} THEN Err(v, "EmptyDeck")
    ELSE IF r > count_ones(v, 0, WORD_BITS) THEN Err(v, "InvalidPosition")
    ELSE Ok(v, select(select(select(select(select(select(
                   [s |-> WORD_BITS, r |-> r],
                   v, 32, 65535), v, 16, 255), v, 8, 15), v, 4, 7), v, 2, 3),
                   v, 1, 1).s)

\* Deck::draw: n is the number gen_range(1..=ones) returns; it panics on an
\* empty range
Deck_draw(word, n) ==
    IF count_ones(word, 0, WORD_BITS) = 0
    THEN Panic(word, "cannot sample empty range")
    ELSE Then(pos_of_leading_1_bit(n, word),
              LAMBDA p : Ok(word \ {p.v - 1}, Card(p.v - 1)))

\* the numbers the random generator is taken to return for a deck of `ones`
\* cards (0 stands for the call that has no number to return)
RngChoices(ones) ==
    IF ones = 0 THEN {0}
    ELSE {n \in 1..ones : n <= RngSpread \/ n > ones - RngSpread}

\* the deck after the draw d
Drawn(d) ==
    [word |-> d.r,
     drawn |-> IF IsOk(d) THEN deck.drawn \cup {d.v} ELSE deck.drawn,
     draws |-> deck.draws + 1, res |-> d.res, msg |-> d.msg]

\* one more draw from the deck, as long as the draws succeed
DrawCard ==
    /\ deck.res = "Ok"
    /\ \E n \in RngChoices(Cardinality(deck.word)) :
          deck' = Drawn(Deck_draw(deck.word, n))
    /\ UNCHANGED <<room, log, result, balance, current_room, joins, hands,
                   hand_total, scenario, tasks, client>>

\* ------------------------------------------------------------ the client
\* the three streams and their cells GAME_STATE, HAND_STATE and OUTCOME_STATE
Streams == {"room", "hand", "outcome"}

\* a Timestamped<T>
Timestamped(timestamp, data) == [timestamp |-> timestamp, data |-> data]

Payloads == {Timestamped(t, d) : t \in 1..MaxStamp, d \in 1..MaxData}

\* the JSON values of a message: those that deserialize to a payload, and one
\* that does not
Values ==
    {[ok |-> TRUE, payload |-> p] : p \in Payloads}
    \cup {[ok |-> FALSE, payload |-> Timestamped(0, 0)]}

\* the messages of the socket: Payload::Text with no, one or two values, and
\* a payload of another kind
Messages ==
    {[kind |-> "Binary", values |-> <<>>], [kind |-> "Text", values |-> <<>>]}
    \cup {[kind |-> "Text", values |-> <<v>>] : v \in Values}
    \cup {[kind |-> "Text", values |-> <<v, w>>] : v, w \in Values}

\* the statics of the client before anything is received
NewClient ==
    [cell |-> [s \in Streams |-> <<>>], received |-> [s \in Streams |-> <<>>]]

\* is_newer, were a payload of the same timestamp newer too
is_newer_or_same(self, other) == self.timestamp >= other.timestamp

\* Timestamped::is_newer
is_newer(self, other) == self.timestamp > other.timestamp

\* the states of update_state: the values that deserialize, in their order
Deserialized(message) ==
    IF message.kind # "Text" THEN <<>>
    ELSE LET kept == SelectSeq(message.values, LAMBDA v : v.ok)
         IN  [i \in 1..Len(kept) |-> kept[i].payload]

\* update_state: the cell after message, given what it holds
update_state(message, state) ==
    IF Deserialized(message) = <<>> THEN state
    ELSE IF state # <<>>
    THEN IF is_newer(Head(Deserialized(message)), Head(state))
         THEN <<Head(Deserialized(message))>>
         ELSE state
    ELSE <<Head(Deserialized(message))>>

\* the callback of a stream runs for a message, while the client has read
\* fewer than MaxArrivals payloads since the last resets
Receive ==
    /\ Len(client.received["room"]) + Len(client.received["hand"])
          + Len(client.received["outcome"]) < MaxArrivals
    /\ \E s \in Streams, m \in Messages :
          client' = [cell |-> [client.cell EXCEPT ![s] = update_state(m, @)],
                     received |-> [client.received EXCEPT ![s] =
                                      @ \o SubSeq(Deserialized(m), 1,
                                                 IF Deserialized(m) = <<>>
                                                 THEN 0 ELSE 1)]]
    /\ UNCHANGED <<room, log, result, balance, current_room, joins, hands,
                   hand_total, scenario, deck, tasks>>

\* reset_state, by reset_game_state or reset_hand_state
Reset ==
    /\ \E s \in {"room", "hand"} :
          /\ client.cell[s] # <<>>
          /\ client' = [cell |-> [client.cell EXCEPT ![s] = <<>>],
                        received |-> [client.received EXCEPT ![s] = <<>>]]
    /\ UNCHANGED <<room, log, result, balance, current_room, joins, hands,
                   hand_total, scenario, deck, tasks>>

NextClient == Receive \/ Reset

\* ------------------------------------------------------- the room lock
\* The handlers again, in the steps in which they run: a handler takes the
\* lock and changes the room (code without an await between), then sends its
\* events one at a time, each an await (the pauses of the showdown are awaits
\* too), and drops the lock when service_action_required returns.

\* get_mut_lock, were it to hand out the room without excluding anyone
get_unlocked(holders) == TRUE

\* RoomRepository::get_mut_lock: whether the call returns now, given the
\* handlers that hold the room
get_mut_lock(holders) == holders = {}

\* a handler that holds no lock and has nothing to send
Idle == [events |-> <<>>, version |-> 0, showdown |-> FALSE]

Emits(l) == SelectSeq(l, LAMBDA e : e.ev = "emit")
Reveals(l) == \E i \in 1..Len(l) :
                 l[i].ev = "emit" /\ l[i].event = "room" /\ l[i].reveal

\* the handler of user_id has the lock: l is what it did to the room
Taking(user_id, l) ==
    /\ lock' = lock \cup {user_id}
    /\ version' = version + 1
    /\ pending' = [pending EXCEPT ![user_id] =
                      [events |-> Emits(l), version |-> version + 1,
                       showdown |-> Reveals(l)]]
    /\ UNCHANGED wire

Hold(user_id, l) == Taking(user_id, l) /\ UNCHANGED requests

Enter(user_id) == user_id \notin lock /\ get_mut_lock(lock)

LockedJoin ==
    \E u \in scenario.users, b \in scenario.buy_ins :
       Enter(u) /\ JoinGame(u, b) /\ Hold(u, log')

LockedAct ==
    \E u \in scenario.users, a \in scenario.actions, oc \in BOOLEAN :
       Enter(u) /\ TakeAction(u, a, oc) /\ Hold(u, log')

LockedLeave ==
    \E u \in scenario.users :
       Enter(u) /\ LeavePlayer(u) /\ Hold(u, log')

\* the last WireLen entries of s
Last(s, n) == IF Len(s) <= n THEN s ELSE SubSeq(s, Len(s) - n + 1, Len(s))

\* emit_to_room, emit_to_socket: the next event of the handler goes out
Sent(p, event) ==
    IF event.event = "room" THEN Last(Append(wire, p.version), WireLen) ELSE wire

EmitNext ==
    \E u \in lock :
       /\ pending[u].events # <<>>
       /\ pending' = [pending EXCEPT ![u].events = Tail(@)]
       /\ wire' = Sent(pending[u], Head(pending[u].events))
       /\ UNCHANGED <<room, log, result, balance, current_room, joins, hands,
                      hand_total, scenario, deck, lock, version, client,
                      requests>>

\* returned, were the lock dropped before the events are sent
returned_early(p) == TRUE

\* whether the handler p has returned from service_action_required, where
\* the RefMut is dropped
returned(p) == p.events = <<>>

\* Once the lock is free every snapshot sent is older than any to come: the
\* versions are counted from zero again.
Release ==
    \E u \in lock :
       /\ returned(pending[u])
       /\ lock' = lock \ {u}
       /\ pending' = [pending EXCEPT ![u] = Idle]
       /\ IF lock = {u}
          THEN version' = 0 /\ wire' = [i \in 1..Len(wire) |-> 0]
          ELSE UNCHANGED <<version, wire>>
       /\ UNCHANGED <<room, log, result, balance, current_room, joins, hands,
                      hand_total, scenario, deck, client, requests>>

NextLock == LockedJoin \/ LockedAct \/ LockedLeave \/ EmitNext \/ Release

\* the inputs of a behaviour; the external store answers every call
Scenario(users, buy_ins, actions, max_joins, max_hands) ==
    [users |-> users, buy_ins |-> buy_ins, actions |-> actions,
     max_joins |-> max_joins, max_hands |-> max_hands, store |-> {TRUE}]

\* the scenario sc with an external store that may fail
FailingStore(sc) == [sc EXCEPT !.store = BOOLEAN]

Start(sc) ==
    /\ scenario = sc
    /\ room = NewRoom
    /\ log = <<>>
    /\ result = [op |-> "init", user |-> None, res |-> "Ok", msg |-> ""]
    /\ balance = [u \in sc.users |-> InitBalance]
    /\ current_room = [u \in sc.users |-> FALSE]
    /\ joins = 0
    /\ hands = 0
    /\ hand_total = 0
    /\ deck = NewDeck
    /\ client = NewClient
    /\ requests = [u \in sc.users |-> "none"]
    /\ lock = {}
    /\ pending = [u \in sc.users |-> Idle]
    /\ version = 0
    /\ wire = <<>>

Init == Start(Scenario(Users, BuyIns, Actions, MaxJoins, MaxHands))

\* A handler holds the room lock from get_mut_lock until it returns, and no
\* other handler reads or writes the room meanwhile: each of the three actions
\* below is a whole handler, taken as one step.
Join ==
    /\ \E u \in scenario.users, b \in scenario.buy_ins : JoinGame(u, b)
    /\ UNCHANGED tasks
Act ==
    /\ \E u \in scenario.users, a \in scenario.actions, oc \in BOOLEAN :
          TakeAction(u, a, oc)
    /\ UNCHANGED tasks
Leave ==
    /\ \E u \in scenario.users : LeavePlayer(u)
    /\ UNCHANGED tasks

Next == Join \/ Act \/ Leave

Spec == Init /\ [][Next]_vars

\* A user joins again, after leaving or while still in the room, and the next
\* hand is played.
InitRejoin ==
    Start(Scenario(Users, BuyIns, Plain({"Fold", "Check", "Call"}),
                   RejoinJoins, SecondHand))

SpecRejoin == InitRejoin /\ [][Next]_vars

\* One user more than the room admits.
InitCrowd ==
    Start(Scenario(1..CrowdUsers, {MaxBuyIn}, Plain({"Fold", "Call", "AllIn"}),
                   CrowdUsers, MaxHands))

SpecCrowd == InitCrowd /\ [][Next]_vars

\* The third user waits through a heads-up hand and plays the next one.
InitSecondHand ==
    Start(Scenario(Users, {MaxBuyIn}, Actions, MaxJoins, SecondHand))

SpecSecondHand == InitSecondHand /\ [][Next]_vars

\* The buy-ins a client sends, on both sides of the least accepted one.
SentBuyIns == {-1, 0} \cup BuyIns

\* The chips of every seat are a number the integers of the model hold: no
\* seat holds u32::MAX.
Counted(r) ==
    LET all == r.players \o r.player_joining_next_round
    IN  \A i \in 1..Len(all) : all[i].chips # U32_MAX

\* A join of any buy-in sent.  A buy-in that the cast turns into u32::MAX is
\* sent while a hand is played, where the joiner waits for the next hand.
JoinSent ==
    /\ \E u \in scenario.users, b \in scenario.buy_ins :
          /\ AsU32(b) = U32_MAX => room.stage # "NotEnoughPlayers"
          /\ JoinGame(u, b)
    /\ UNCHANGED tasks

\* A behaviour is followed up to a join that seats u32::MAX chips, and not
\* beyond it.
NextBuyIn ==
    \/ Counted(room) /\ JoinSent
    \/ Counted(room) /\ Act
    \/ Counted(room) /\ Leave

InitBuyIn ==
    Start(Scenario(Users, SentBuyIns, Plain({"Fold", "Call"}), MaxJoins, MaxHands))

SpecBuyIn == InitBuyIn /\ [][NextBuyIn]_vars

\* The external store may return an error to whoever joins or leaves.
InitStore ==
    Start(FailingStore(Scenario(Users, BuyIns, Plain({"Fold", "Call"}),
                                MaxJoins, MaxHands)))

SpecStore == InitStore /\ [][Next]_vars

\* Players also act when it is not their turn.
Refuse ==
    /\ \E u \in scenario.users, a \in scenario.actions, oc \in BOOLEAN :
          OutOfTurn(u, a, oc)
    /\ UNCHANGED tasks

NextTurn == Join \/ Act \/ Leave \/ Refuse

SpecTurn == Init /\ [][NextTurn]_vars

\* GameService::take_action from the room lock on, whoever the player is
Handled(user_id, action, overflow_checks) ==
    /\ overflow_checks
          \/ Overflows(take_action(Working(room), user_id, action, TRUE))
    /\ \E eval \in EvalInputs(take_action(Working(room), user_id, action,
                                          overflow_checks)) :
          Returned("take_action", user_id,
                   ActionOutcome(take_action(Working(room), user_id, action,
                                             overflow_checks), eval))
    /\ UNCHANGED <<balance, current_room, joins>>

\* Api::take_action up to the call of GameService::take_action: the user is
\* found in the room, and the request goes on to the room lock
Admit ==
    /\ \E u \in scenario.users :
          /\ current_room[u]
          /\ requests[u] = "none"
          /\ requests' = [requests EXCEPT ![u] = "admitted"]
    /\ UNCHANGED <<room, log, result, balance, current_room, joins, hands,
                   hand_total, scenario, deck, client, lock, pending, version,
                   wire>>

\* GameService::take_action, for a request admitted before: the handlers that
\* had the room lock meanwhile have returned
ActAdmitted ==
    /\ hands <= scenario.max_hands
    /\ \E u \in scenario.users, a \in scenario.actions, oc \in BOOLEAN :
          /\ requests[u] = "admitted"
          /\ requests' = [requests EXCEPT ![u] = "none"]
          /\ Handled(u, a, oc)
    /\ UNCHANGED <<lock, pending, version, wire>>

NextRace == Join \/ Leave \/ Admit \/ ActAdmitted

\* The check of Api::take_action and the handler behind it are two steps, and
\* other handlers run between them.
InitRace ==
    Start(Scenario(Users, {MaxBuyIn}, Plain({"Fold", "Call", "AllIn"}),
                   MaxJoins, MaxHands))

SpecRace == InitRace /\ [][NextRace]_vars

\* The handlers run concurrently, each in its steps, under the room lock.
SpecLock == Init /\ [][NextLock]_vars

\* A deck drawn until it fails.
SpecDeck == Init /\ [][DrawCard]_vars

\* A client reads what it is sent, in any order, and resets its cells.
SpecClient == Init /\ [][NextClient]_vars

\* ------------------------------------------------------ the worker threads
\* The handlers are tasks of a runtime with Workers threads.  get_mut_lock is
\* not an async fn: a handler that calls it while another holds the room
\* waits inside the call, on its thread.  A handler at a sleep of the showdown
\* has left its thread and goes on when a thread is free to run it.

\* the users whose request waits in get_mut_lock
Blocked == {u \in scenario.users : requests[u] = "blocked"}

FreeWorker == Cardinality(Blocked) < Workers

\* a take_action of a user of the room arrives while a handler holds the
\* room: it passes the check of Api::take_action and waits in get_mut_lock
Arrive ==
    /\ hands <= scenario.max_hands
    /\ lock # {}
    /\ FreeWorker
    /\ \E u \in scenario.users \ lock :
          /\ current_room[u]
          /\ requests[u] = "none"
          /\ requests' = [requests EXCEPT ![u] = "blocked"]
    /\ UNCHANGED <<room, log, result, balance, current_room, joins, hands,
                   hand_total, scenario, deck, client, lock, pending, version,
                   wire>>

\* the room is free: get_mut_lock returns to one of the waiting requests,
\* and its handler runs
Serve ==
    \E u \in Blocked, a \in scenario.actions, oc \in BOOLEAN :
       /\ get_mut_lock(lock)
       /\ requests' = [requests EXCEPT ![u] = "none"]
       /\ Handled(u, a, oc)
       /\ Taking(u, log')

\* some handler is in the pauses of a showdown
ShowdownPause == \E u \in lock : pending[u].showdown

\* a step of a handler after an await: after a sleep it takes a free thread
Resumed(step) == (ShowdownPause => FreeWorker) /\ step

\* a handler starts on a free thread
Started(step) == FreeWorker /\ step

NextWorkers ==
    \/ Started(LockedJoin) \/ Started(LockedAct) \/ Started(LockedLeave)
    \/ Arrive \/ Serve
    \/ Resumed(EmitNext) \/ Resumed(Release)

InitWorkers ==
    Start(Scenario(Users, {MaxBuyIn}, Plain({"Fold", "Call"}), MaxJoins,
                   SecondHand))

\* The runtime runs every task that is ready when a thread is free for it.
SpecWorkers ==
    /\ InitWorkers /\ [][NextWorkers]_vars
    /\ WF_vars(Resumed(EmitNext)) /\ WF_vars(Resumed(Release))

\* ================================================================ claims
\* the room snapshots the last handler emitted
Snapshots == {i \in 1..Len(log) : log[i].ev = "emit" /\ log[i].event = "room"}
ShowdownSnapshots == {i \in Snapshots : log[i].room.stage \in ShowdownStages}
EndStages == {i \in 1..Len(log) : log[i].ev = "end_stage"}
Ids(players) == [i \in 1..Len(players) |-> players[i].id]

\* C1: chip conservation.  In every betting stage the seated players' chips
\* and bets plus the pots add up to what the seated players held when the hand
\* started; the room shown at showdown still holds that amount; and when the
\* payout is followed by a new hand with the same players seated, the new
\* hand starts with that amount again.
C1_step ==
    /\ room'.stage \in BettingStages =>
          SeatedTotal(room') + PotTotal(room') = hand_total'
    /\ \A i \in {j \in 1..Len(log') : /\ log'[j].ev = "emit"
                                       /\ log'[j].event = "room"
                                       /\ log'[j].room.stage \in ShowdownStages} :
          SeatedTotal(log'[i].room) + PotTotal(log'[i].room) = hand_total
    /\ (/\ result'.res = "Ok"
        /\ room.stage \in BettingStages
        /\ hands' = hands + 1
        /\ room.player_joining_next_round = <<>>
        /\ Len(room'.players) = Len(room.players)) =>
          /\ hand_total' = hand_total
          /\ SeatedTotal(room') = hand_total

C1_ChipConservation == [][C1_step]_vars

\* C2: all-or-nothing failure.  A join_player or take_action that returns Err
\* leaves the room as it was before the call.
C2_AllOrNothing ==
    [][(result'.op \in {"join", "take_action"} /\ result'.res = "Err")
          => room' = room]_vars

\* C3: no call panics.  Every join, leave and action returns Ok or Err.
C3_NeverPanics == result.res # "Panic"

Seat(r, id) == FirstIndex(r.players, LAMBDA p : p.id = id)

\* C4: player_in_turn is None exactly in NotEnoughPlayers and Showdown, and in
\* every other stage it names a seated player who has not folded and has
\* chips.
C4_TurnMatchesStage ==
    /\ room.player_in_turn = None
          <=> room.stage \in {"NotEnoughPlayers"} \cup ShowdownStages
    /\ room.player_in_turn # None =>
          \E i \in 1..Len(room.players) :
             /\ room.players[i].id = room.player_in_turn
             /\ Eligible(room.players[i])

\* C5: when the player in turn leaves during a betting stage and another
\* connected player stays seated, the leave ends with the turn on another
\* player or with the hand out of its betting stages.
C5_LeaveAdvancesTurn ==
    [][(/\ result'.op = "leave"
        /\ room.stage \in BettingStages
        /\ room.player_in_turn = result'.user
        /\ \E i \in 1..Len(room.players) :
              /\ room.players[i].id # result'.user
              /\ room.players[i].is_connected)
          => \/ room'.stage \notin BettingStages
             \/ room'.player_in_turn # result'.user]_vars

\* C6: connected players with chips, seated or waiting, never number more than
\* MAX_NUM_OF_PLAYERS.
C6_AtMostFive == player_count(room) <= MAX_NUM_OF_PLAYERS

Monotone(pots) ==
    \A i \in 1..(Len(pots) - 1) : pots[i + 1].players \subseteq pots[i].players

\* C7: in the room and in every room shown to the clients, the players of each
\* pot are among the players of the pot before it.
C7_PotsMonotone ==
    /\ Monotone(room.pots)
    /\ \A i \in Snapshots : Monotone(log[i].room.pots)

\* C9: with two or more players seated, exactly one of them holds the dealer
\* position.
C9_OneDealer ==
    Len(room.players) >= 2 =>
        Cardinality({i \in 1..Len(room.players) :
                       is_dealer(room.players[i].position)}) = 1

\* the bet levels of a stage, and the players whose bet reaches a level
Levels(bets) == {bets[i].bet : i \in 1..Len(bets)}
Reaching(bets, v) == {i \in 1..Len(bets) : bets[i].bet >= v}
LevelBelow(bets, v) == Max({0} \cup {w \in Levels(bets) : w < v})
KthLevel(bets, k) ==
    CHOOSE v \in Levels(bets) : Cardinality({w \in Levels(bets) : w < v}) = k - 1

\* one pot per bet level, lowest level first
Layers(bets) ==
    [k \in 1..Cardinality(Levels(bets)) |->
        LET v == KthLevel(bets, k)
        IN  [amount |-> (v - LevelBelow(bets, v)) * Cardinality(Reaching(bets, v)),
             players |-> {bets[i].id : i \in Reaching(bets, v)}]]

\* the first pot of each run of consecutive pots with the same players
RunStarts(pots) ==
    {i \in 1..Len(pots) : i = 1 \/ pots[i].players # pots[i - 1].players}
RunEnd(pots, s) == Min({t \in RunStarts(pots) : t > s} \cup {Len(pots) + 1}) - 1
KthStart(pots, k) ==
    CHOOSE s \in RunStarts(pots) : Cardinality({t \in RunStarts(pots) : t < s}) = k - 1

\* every run of consecutive pots with the same players made one pot
Merged(pots) ==
    [k \in 1..Cardinality(RunStarts(pots)) |->
        LET s == KthStart(pots, k)
        IN  [amount |-> SumOver(s..RunEnd(pots, s),
                                [j \in 1..Len(pots) |-> pots[j].amount]),
             players |-> pots[s].players]]

PotSum(pots) == SumSeq([i \in 1..Len(pots) |-> pots[i].amount])
BetSum(bets) == SumSeq([i \in 1..Len(bets) |-> bets[i].bet])

\* C8: each time a betting stage ends, the pot list is the list before the
\* stage followed by one pot per bet level (the level's size times the players
\* whose bet reaches it, those players eligible), with consecutive pots of the
\* same players merged; the pot amounts grow by the sum of the stage's bets,
\* and the first stage of a hand starts from no pots.
C8_EndStageLayers ==
    \A i \in EndStages :
       /\ log[i].after = Merged(log[i].before \o Layers(log[i].bets))
       /\ PotSum(log[i].after) = PotSum(log[i].before) + BetSum(log[i].bets)
       /\ log[i].stage = "PreFlop" => log[i].before = <<>>

\* a stage of three bettors ended with two bet levels, the lower one merged
\* into the pot of the stage before
C8_Witness ==
    \E i \in EndStages :
       /\ Cardinality(Levels(log[i].bets)) >= 2
       /\ log[i].before # <<>>
       /\ Len(log[i].after) < Len(log[i].before) + Cardinality(Levels(log[i].bets))
       /\ Cardinality(log[i].after[1].players) = 3

StageCards(stage) ==
    CASE stage \in {"NotEnoughPlayers", "PreFlop"} -> 0
      [] stage = "Flop" -> 3
      [] stage = "Turn" -> 4
      [] stage \in {"River", "Showdown(true)"} -> 5

\* the stage that ended last before entry i of the handler's log
FoldedIn(l, i) ==
    l[Max({j \in 1..(i - 1) : l[j].ev = "end_stage"})].stage

\* C10: the number of community cards matches the stage, in the room and in
\* every room shown to the clients: 0 in NotEnoughPlayers and PreFlop, 3 in
\* Flop, 4 in Turn, 5 in River and Showdown(true), and in Showdown(false) the
\* number of the stage in which the last opponent folded.
C10_CardsMatchStage ==
    /\ room.stage # "Showdown(false)"
    /\ room.community_cards = StageCards(room.stage)
    /\ \A i \in Snapshots :
          log[i].room.community_cards =
             IF log[i].room.stage = "Showdown(false)"
             THEN StageCards(FoldedIn(log, i))
             ELSE StageCards(log[i].room.stage)

\* the clients were shown a hand that ended on the flop by a fold, with the
\* three flop cards on the table
C10_Witness ==
    /\ \E i \in Snapshots :
          /\ log[i].room.stage = "Showdown(false)"
          /\ log[i].room.community_cards = 3
          /\ FoldedIn(log, i) = "Flop"

\* C11: deck exhaustion.  From a fresh deck the first 52 draws succeed and
\* return 52 different cards, and the 53rd draw returns the error EmptyDeck.
C11_DeckExhaustion ==
    /\ deck.draws <= FULL_DECK =>
          /\ deck.res = "Ok"
          /\ Cardinality(deck.drawn) = deck.draws
          /\ Cardinality(deck.word) = FULL_DECK - deck.draws
    /\ deck.draws > FULL_DECK =>
          /\ deck.res = "Err"
          /\ deck.msg = "EmptyDeck"
          /\ Cardinality(deck.drawn) = FULL_DECK

\* C12: when the external store fails in the service's join_player or
\* leave_player after Room::join_player or Room::leave_player has run, the
\* room is as it was before the operation.
C12_StoreRollback ==
    [][result'.msg = "external store" => room' = room]_vars

\* the outcome events of the last handler that pay something
Payouts ==
    {i \in 1..Len(log) : /\ log[i].ev = "emit"
                         /\ log[i].event = "outcome"
                         /\ log[i].winnings # <<>>}
Paid(winnings) == SumSeq([i \in 1..Len(winnings) |-> winnings[i].amount])
Payees(winnings) == {winnings[i].player : i \in 1..Len(winnings)}

\* C13: in a showdown with several pots, each paid by an outcome event of its
\* own, the payout of the main pot (the first pot of the room's list) is the
\* last outcome event that pays something, after those of the side pots.
C13_MainPotLast ==
    \A i \in ShowdownSnapshots :
       (log[i].room.stage = "Showdown(true)" /\ Len(log[i].room.pots) >= 2) =>
          /\ Cardinality(Payouts) = Len(log[i].room.pots)
          /\ Paid(log[Max(Payouts)].winnings) = log[i].room.pots[1].amount
          /\ Payees(log[Max(Payouts)].winnings) \subseteq log[i].room.pots[1].players

\* a player of the waiting list stays out of the running hand
OutOfHand(w) ==
    /\ ~w.hand
    /\ w.bet = 0
    /\ room.player_in_turn # w.id
    /\ \A k \in 1..Len(room.pots) : w.id \notin room.pots[k].players

\* a join accepted while a hand is running only adds to the waiting list
JoinLeavesHand ==
    (/\ result'.op = "join"
     /\ result'.res = "Ok"
     /\ joins' = joins + 1
     /\ room.stage # "NotEnoughPlayers") =>
       /\ room'.players = room.players
       /\ room'.stage = room.stage
       /\ room'.pots = room.pots
       /\ room'.player_in_turn = room.player_in_turn
       /\ room'.community_cards = room.community_cards
       /\ Len(room'.player_joining_next_round) =
             Len(room.player_joining_next_round) + 1

\* C14: a player who joins while the stage is not NotEnoughPlayers is put on
\* the waiting list and the running hand is untouched: the join changes neither
\* the seated list nor the stage, the bets or the pots, and until the next
\* hand starts the player has no hole cards, no bet, is not player_in_turn and
\* is in no pot's eligible set.
C14_WaitingUntouched ==
    /\ [](\A i \in 1..Len(room.player_joining_next_round) :
             OutOfHand(room.player_joining_next_round[i]))
    /\ [][JoinLeavesHand]_vars

\* a handler that is showing a showdown: it revealed the hands and has events
\* left to send
Showing(u) == pending[u].showdown /\ pending[u].events # <<>>

\* C15: no player action interleaves with a showdown.  From the step that
\* takes the room into Showdown until the last event of that handler is sent
\* (the payouts, the empty outcome and what the following proceed emits) the
\* handler keeps the room lock, no other handler takes it, and no join, leave
\* or take_action changes the room.
C15_LockAcrossShowdown ==
    [][\A u \in lock :
          Showing(u) => /\ u \in lock'
                        /\ lock' \subseteq lock
                        /\ room' = room
                        /\ result' = result
                        /\ balance' = balance]_vars

C15_Witness ==
    \E u \in lock :
       /\ Showing(u)
       /\ Head(pending[u].events).event = "outcome"
       /\ Head(pending[u].events).winnings # <<>>
       /\ \E v \in scenario.users \ {u} : current_room[v]

\* C16: the room snapshots are sent in the order of the transitions they
\* describe: no snapshot of an earlier version of the room is sent after a
\* snapshot of a later one, whatever the interleaving of the handlers.
C16_SnapshotsInOrder ==
    \A i, j \in 1..Len(wire) : i < j => wire[i] <= wire[j]

C16_Witness ==
    /\ Len(wire) = 2
    /\ wire[1] < wire[2]
    /\ \E u \in lock : pending[u].version = wire[2] /\ result.user = u
    /\ result.op = "take_action"

IsRoomEvent(e) == e.ev = "emit" /\ e.event = "room"
IsHandEvent(e) == e.ev = "emit" /\ e.event = "hand"
IsOutcomeEvent(e) == e.ev = "emit" /\ e.event = "outcome"

\* the snapshot that announces the PreFlop of a hand, and the one that reveals
\* the hands at its showdown
AnnouncesPreFlop(e) ==
    IsRoomEvent(e) /\ e.action = "PlayerReceiveCards" /\ e.state.stage = "PreFlop"
RevealsShowdown(e) ==
    IsRoomEvent(e) /\ e.action = "FindWinners" /\ e.reveal

\* log[j] .. log[i] with only events of kind Only(_) strictly between them
Follows(l, j, i, Only(_)) ==
    j < i /\ \A k \in (j + 1)..(i - 1) : Only(l[k])

\* C17: in what a handler emits, every hand event comes after the snapshot
\* announcing the PreFlop of the hand that was just started, with nothing but
\* hand events between them, and every outcome event (payouts and the final
\* empty one) comes after the snapshot revealing the showdown, with nothing but
\* outcome events between them, hence before the next hand is started and its
\* PreFlop snapshot sent.
C17_EventOrder ==
    \A i \in 1..Len(log) :
       /\ IsHandEvent(log[i]) =>
            \E s, j \in 1..i :
               /\ log[s].ev = "start_game"
               /\ Follows(log, s, j, LAMBDA e : e.ev # "start_game" /\ ~IsRoomEvent(e))
               /\ AnnouncesPreFlop(log[j])
               /\ Follows(log, j, i, IsHandEvent)
       /\ IsOutcomeEvent(log[i]) =>
            \E j \in 1..i :
               /\ RevealsShowdown(log[j])
               /\ Follows(log, j, i, IsOutcomeEvent)

\* a showdown paid out, the next hand started and its cards sent
C17_Witness ==
    \E j, i, s, h \in 1..Len(log) :
       /\ RevealsShowdown(log[j])
       /\ Follows(log, j, i, IsOutcomeEvent)
       /\ IsOutcomeEvent(log[i]) /\ log[i].winnings = <<>>
       /\ i < s /\ log[s].ev = "start_game"
       /\ s < h /\ IsHandEvent(log[h])
       /\ AnnouncesPreFlop(log[h - 1])

\* what the snapshot e shows of the hands of the players
ShownHands(e) == {e.state.players[k].hand : k \in 1..Len(e.state.players)}

\* the seated players whose socket is sid, in the room the event e was made from
SocketOwners(e, sid) ==
    {e.room.players[k].id :
        k \in {n \in 1..Len(e.room.players) : e.room.players[n].sid = sid}}

C19_NotPlayersTurn ==
    [][(result'.op = "take_action" /\ result'.user # room.player_in_turn) =>
          /\ result'.res = "Err"
          /\ result'.msg = "Not player's turn"
          /\ room' = room
          /\ log' = <<>>
          /\ balance' = balance]_vars

\* a seated player who has not folded was refused while another is in turn
C19_Witness ==
    /\ result.op = "take_action"
    /\ result.msg = "Not player's turn"
    /\ room.player_in_turn # None
    /\ room.player_in_turn # result.user
    /\ \E i \in 1..Len(room.players) :
          /\ room.players[i].id = result.user
          /\ ~room.players[i].has_folded
          /\ room.players[i].chips > 0

\* amount + bet is below maxbet, as numbers
RaiseBelow(amount, bet, maxbet) == amount # U32_MAX /\ amount + bet < maxbet

\* the message the action a of player p is to be rejected with, "" if it is
\* not to be rejected for any of the three reasons
Rejection(a, p, maxbet) ==
    CASE a.type = "Check" /\ p.bet < maxbet -> "Player must call or raise"
      [] a.type = "Raise" /\ RaiseBelow(a.amount, p.bet, maxbet) ->
           "Invalid raise amount"
      [] a.type = "Raise" /\ ~RaiseBelow(a.amount, p.bet, maxbet)
                          /\ ~U32Le(a.amount, p.chips) ->
           "does not have enough chips"
      [] a.type = "Call" /\ p.bet <= maxbet /\ maxbet - p.bet > p.chips ->
           "does not have enough chips"
      [] OTHER -> ""

\* x, the result of take_action for the player at seat k of r, is the
\* rejection msg and leaves the player and the hand as they were
RejectedWith(r, k, x, msg) ==
    /\ x.res = "Err"
    /\ x.msg = msg
    /\ x.r.players[k].chips = r.players[k].chips
    /\ x.r.players[k].bet = r.players[k].bet
    /\ x.r.stage = r.stage
    /\ x.r.pots = r.pots
    /\ x.r.player_in_turn = r.player_in_turn

RejectsAt(r, k, a, x) ==
    Rejection(a, r.players[k],
              max_bet_in_play(SelectSeq(r.players, NotFolded))) # "" =>
       RejectedWith(r, k, x,
                    Rejection(a, r.players[k],
                              max_bet_in_play(SelectSeq(r.players, NotFolded))))

TurnSeat == IF room.player_in_turn = None THEN 0 ELSE Seat(room, room.player_in_turn)

\* the room as the action a of the player in turn leaves it, before
\* take_action calls proceed
Applied(a, oc) ==
    apply_action([room EXCEPT !.players[TurnSeat].last_action = a], TurnSeat,
                 room.players[TurnSeat],
                 max_bet_in_play(SelectSeq(room.players, NotFolded)), a, oc)

AfterAction(a, oc) ==
    [Applied(a, oc).r EXCEPT !.players[TurnSeat].has_taken_turn = TRUE]

\* a is an action the player in turn can take at a betting stage
Accepted(a, oc) ==
    /\ TurnSeat # 0
    /\ room.stage \in BettingStages
    /\ IsOk(Applied(a, oc))

\* what Room::take_action returns for it
Taken(a, oc) == take_action(Working(room), room.player_in_turn, a, oc)

InPlay(r) == SelectSeq(r.players, NotFolded)
InPlayWithChips(r) == SelectSeq(InPlay(r), HasChips)

\* x moved the room r to Showdown(false) with no card dealt, and find_winners
\* awards all the pots to the player left, with no hand evaluated
LastStanding(r, x, fw) ==
    /\ IsOk(x)
    /\ x.v = "FindWinners"
    /\ x.r.stage = "Showdown(false)"
    /\ x.r.community_cards = r.community_cards
    /\ x.r.deck = r.deck
    /\ IsOk(fw)
    /\ fw.v.hands_eval = <<>>
    /\ fw.v.winners = <<[amount |-> PotTotal(x.r),
                         players |-> {InPlay(x.r)[1].id}]>>

\* C21: whenever an action at PreFlop, Flop, Turn or River leaves exactly one
\* seated player who has not folded, the same call moves the room to
\* Showdown(false), deals no further community card and returns FindWinners,
\* and find_winners yields one entry that awards the sum of all the pots to
\* that player, with no hand evaluated.
C21_LastPlayerStanding ==
    \A a \in scenario.actions, oc \in BOOLEAN :
       (Accepted(a, oc) /\ Len(InPlay(AfterAction(a, oc))) = 1) =>
          LastStanding(room, Taken(a, oc), find_winners(Taken(a, oc).r, NoEval))

\* the last handler was an action that left one player, who was paid the pots
C21_Witness ==
    /\ result.op = "take_action"
    /\ result.res = "Ok"
    /\ \E i \in 1..(Len(log) - 1) :
          /\ RevealsShowdown(log[i])
          /\ log[i].room.stage = "Showdown(false)"
          /\ Len(InPlay(log[i].room)) = 1
          /\ IsOutcomeEvent(log[i + 1])
          /\ Len(log[i + 1].winnings) = 1
          /\ log[i + 1].winnings[1].player = InPlay(log[i].room)[1].id
          /\ log[i + 1].winnings[1].amount = PotTotal(log[i].room)

\* the players in play of r are two or more and none is left to act: none has
\* chips, or one has and that player's bet is the max bet
NoneLeftToAct(r) ==
    /\ Len(InPlay(r)) >= 2
    /\ \/ Len(InPlayWithChips(r)) = 0
       \/ /\ Len(InPlayWithChips(r)) = 1
          /\ InPlayWithChips(r)[1].bet = max_bet(r)

\* the streets still to deal when cards community cards lie on the table
MissingStreets(cards) ==
    CASE cards = 0 -> 3
      [] cards = 3 -> 2
      [] cards = 4 -> 1
      [] cards = 5 -> 0

\* x moved the room r to Showdown(true): five community cards, one card
\* burnt for each street that was missing, nobody in turn
DealtOut(r, x) ==
    /\ IsOk(x)
    /\ x.v = "FindWinners"
    /\ x.r.stage = "Showdown(true)"
    /\ x.r.community_cards = 5
    /\ r.deck - x.r.deck =
          (5 - r.community_cards) + MissingStreets(r.community_cards)
    /\ x.r.player_in_turn = None

\* C22: whenever an action leaves two or more players in play of whom none
\* has chips, or exactly one has chips and that player's bet equals the max
\* bet, the room moves to Showdown(true), the community cards are completed to
\* five (one burn plus the deal for each missing street), player_in_turn
\* becomes None and FindWinners is returned.
C22_ShowdownWithDealing ==
    \A a \in scenario.actions, oc \in BOOLEAN :
       (Accepted(a, oc) /\ NoneLeftToAct(AfterAction(a, oc))) =>
          DealtOut(room, Taken(a, oc))

\* the last handler was an action before the river that ended in a showdown
\* with the five cards dealt
C22_Witness ==
    /\ result.op = "take_action"
    /\ result.res = "Ok"
    /\ \E i \in 1..Len(log), j \in 1..Len(log) :
          /\ i < j
          /\ log[i].ev = "end_stage"
          /\ log[i].stage \in {"PreFlop", "Flop"}
          /\ RevealsShowdown(log[j])
          /\ log[j].room.stage = "Showdown(true)"
          /\ log[j].room.community_cards = 5
          /\ Len(InPlay(log[j].room)) >= 2

\* the call x takes the room out of its stage
Advances(x) == IsOk(x) /\ x.r.stage # room.stage

\* C23, as stated: on advancement out of a betting stage, when at most one
\* player in play still has chips, the stage is forced to Showdown(false).
C23_ForcedShowdownFalse ==
    \A a \in scenario.actions, oc \in BOOLEAN :
       (/\ Accepted(a, oc)
        /\ Len(InPlayWithChips(AfterAction(a, oc))) <= 1
        /\ Advances(Taken(a, oc))) =>
          Taken(a, oc).r.stage = "Showdown(false)"

\* C23, amended: on advancement out of a betting stage, when at most one
\* player in play still has chips, the stage is forced to a showdown:
\* Showdown(false) when one player is in play, Showdown(true), with the cards
\* dealt, when two or more are.
C23_ForcedShowdown ==
    \A a \in scenario.actions, oc \in BOOLEAN :
       (/\ Accepted(a, oc)
        /\ Len(InPlayWithChips(AfterAction(a, oc))) <= 1
        /\ Advances(Taken(a, oc))) =>
          Taken(a, oc).r.stage =
             IF Len(InPlay(AfterAction(a, oc))) = 1
             THEN "Showdown(false)" ELSE "Showdown(true)"

\* an action before the river of a player whose opponent is all-in ended the
\* hand in Showdown(true)
C23_Witness ==
    /\ result.op = "take_action"
    /\ result.res = "Ok"
    /\ \E i \in 1..(Len(log) - 1) :
          /\ log[i].ev = "end_stage"
          /\ log[i].stage \in {"PreFlop", "Flop", "Turn"}
          /\ RevealsShowdown(log[i + 1])
          /\ log[i + 1].room.stage = "Showdown(true)"
          /\ Len(InPlayWithChips(log[i + 1].room)) = 1
          /\ Len(InPlay(log[i + 1].room)) = 2

\* the rankings the evaluator can return for the showdown of r
EvalsFor(r) ==
    IF r.stage = "Showdown(true)"
    THEN [{InPlay(r)[k].id : k \in 1..Len(InPlay(r))} -> Evals]
    ELSE {NoEval}

\* the seats of the winners, and the one first clockwise after the dealer seat
WinnerSeats(r, w) == {k \in 1..Len(r.players) : r.players[k].id \in w.players}
DealerSeats(r) == {k \in 1..Len(r.players) : is_dealer(r.players[k].position)}
StepsAfter(r, d, k) == (k - d - 1 + Len(r.players)) % Len(r.players)
NearestAfter(r, d, seats) ==
    CHOOSE k \in seats : \A j \in seats : StepsAfter(r, d, k) <= StepsAfter(r, d, j)

\* the chips split_pot credits to seat k of r for x, its result
Credited(r, x, k) == x.r.players[k].chips - r.players[k].chips

\* x, the result of split_pot for the entry w alone, pays each winner the
\* share and the nearest winner after the dealer seat d the remainder
PaysEntry(r, w, x, d) ==
    /\ IsOk(x)
    /\ Len(x.r.players) = Len(r.players)
    /\ \A k \in 1..Len(r.players) :
          Credited(r, x, k) =
             (IF k \in WinnerSeats(r, w)
              THEN w.amount \div Cardinality(w.players) ELSE 0)
             + (IF k = NearestAfter(r, d, WinnerSeats(r, w))
                THEN w.amount % Cardinality(w.players) ELSE 0)
    /\ SumSeq([k \in 1..Len(r.players) |-> Credited(r, x, k)]) = w.amount

PaysAll(r, winners) ==
    \A n \in 1..Len(winners) :
       /\ Cardinality(DealerSeats(r)) = 1
       /\ WinnerSeats(r, winners[n]) # {}
       /\ PaysEntry(r, winners[n], split_pot(Working(r), <<winners[n]>>),
                    CHOOSE d \in DealerSeats(r) : TRUE)

\* C24: for every (amount, winner set) entry of a showdown, split_pot adds
\* floor(amount / |winners|) chips to each winner and the remainder
\* amount mod |winners| to the one winner who is first clockwise after the
\* dealer seat, so that the chips credited for the pot are exactly its amount.
C24_SplitPot ==
    \A i \in 1..Len(log) :
       RevealsShowdown(log[i]) =>
          \A eval \in EvalsFor(log[i].room) :
             PaysAll(log[i].room,
                     find_winners(Working(log[i].room), eval).v.winners)

InPlayIds(r) == {InPlay(r)[k].id : k \in 1..Len(InPlay(r))}

\* the eligible players of pot who have not folded and whose rank is the best
BestInPlay(r, pot, eval) ==
    {id \in pot.players \cap InPlayIds(r) :
        \A other \in pot.players \cap InPlayIds(r) : eval[id] >= eval[other]}

\* fw, the result of find_winners for the showdown r, names for every pot the
\* best hands among its eligible players, and x, the payout, credits no
\* folded player
BestHandsWin(r, eval, fw, x) ==
    /\ IsOk(fw)
    /\ Len(fw.v.winners) = Len(r.pots)
    /\ \A n \in 1..Len(r.pots) :
          /\ fw.v.winners[n].amount = Reverse(r.pots)[n].amount
          /\ fw.v.winners[n].players # {}
          /\ fw.v.winners[n].players \subseteq Reverse(r.pots)[n].players
          /\ fw.v.winners[n].players = BestInPlay(r, Reverse(r.pots)[n], eval)
    /\ IsOk(x)
    /\ \A k \in 1..Len(r.players) :
          r.players[k].has_folded => Credited(r, x, k) = 0

\* C25: in Showdown(true), for every pot the winner set returned by
\* find_winners is not empty, is a subset of the pot's eligible players and
\* is exactly the set of the eligible players who have not folded and whose
\* hand rank is the best among them, ties included; a folded player is in no
\* winner set and is credited no chips by the payout.
C25_BestHandsWin ==
    \A i \in 1..Len(log) :
       (RevealsShowdown(log[i]) /\ log[i].room.stage = "Showdown(true)") =>
          \A eval \in EvalsFor(log[i].room) :
             BestHandsWin(log[i].room, eval,
                          find_winners(Working(log[i].room), eval),
                          split_pot(Working(log[i].room),
                                    find_winners(Working(log[i].room), eval).v.winners))

\* every player in play with chips has taken a turn and their bets are equal
BetsSettled(r) ==
    /\ \A k \in 1..Len(InPlayWithChips(r)) : InPlayWithChips(r)[k].has_taken_turn
    /\ \A k, j \in 1..Len(InPlayWithChips(r)) :
          InPlayWithChips(r)[k].bet = InPlayWithChips(r)[j].bet

NextStreet(stage) ==
    CASE stage = "PreFlop" -> "Flop"
      [] stage = "Flop" -> "Turn"
      [] stage = "Turn" -> "River"
      [] stage = "River" -> "Showdown(true)"

\* the seats of r whose player has not folded and has chips
EligibleSeats(r) == {k \in 1..Len(r.players) : Eligible(r.players[k])}

\* x advanced the room r to the next street, or left the stage and passed the
\* turn from seat k to the next eligible seat clockwise
AdvancesOrPasses(r, after, k, x) ==
    /\ IsOk(x)
    /\ IF BetsSettled(after)
       THEN x.r.stage = NextStreet(r.stage)
       ELSE /\ x.r.stage = r.stage
            /\ x.v = "NoAction"
            /\ x.r.community_cards = r.community_cards
            /\ x.r.pots = r.pots
            /\ x.r.player_in_turn =
                  after.players[NearestAfter(after, k, EligibleSeats(after))].id

\* C26: with two or more players in play holding chips, a betting stage
\* advances to the next street exactly when every such player has taken a turn
\* in this stage and all their bets are equal; otherwise the stage stays and
\* the turn passes to the next player in play with chips clockwise.
C26_AdvanceWhenSettled ==
    \A a \in scenario.actions, oc \in BOOLEAN :
       (Accepted(a, oc) /\ Len(InPlayWithChips(AfterAction(a, oc))) >= 2) =>
          AdvancesOrPasses(room, AfterAction(a, oc), TurnSeat, Taken(a, oc))

\* the last action passed the turn, the one before it advanced the street
C26_Witness ==
    /\ result.op = "take_action"
    /\ result.res = "Ok"
    /\ room.stage = "Flop"
    /\ Len(InPlayWithChips(room)) >= 2
    /\ \E k \in 1..Len(room.players) :
          /\ room.players[k].id = result.user
          /\ room.players[k].has_taken_turn
          /\ room.players[k].id # room.player_in_turn
    /\ \E k \in 1..Len(room.players) : ~room.players[k].has_taken_turn

\* the stages a handler takes the room through: the stage it finds, the stage
\* of every snapshot it sends, the stage it leaves
RoomEvents(l) == SelectSeq(l, IsRoomEvent)
StagePath ==
    <<room.stage>>
    \o [i \in 1..Len(RoomEvents(log')) |-> RoomEvents(log')[i].room.stage]
    \o <<room'.stage>>

StageEdge(s, t) ==
    \/ s = "NotEnoughPlayers" /\ t = "PreFlop"
    \/ s \in BettingStages \ {"River"} /\ t = NextStreet(s)
    \/ s \in BettingStages /\ t \in ShowdownStages
    \/ s \in ShowdownStages /\ t \in {"PreFlop", "NotEnoughPlayers"}

\* a hand is started only out of NotEnoughPlayers or a showdown
StartsFromRest ==
    \A i \in 1..Len(log') :
       log'[i].ev = "start_game" =>
          \/ \E j \in 1..(i - 1) :
                /\ IsRoomEvent(log'[j])
                /\ log'[j].room.stage \in ShowdownStages
                /\ \A n \in (j + 1)..(i - 1) : ~IsRoomEvent(log'[n])
          \/ /\ \A j \in 1..(i - 1) : ~IsRoomEvent(log'[j])
             /\ room.stage = "NotEnoughPlayers"

\* C27, as stated: every stage change follows one of the edges
\* NotEnoughPlayers -> PreFlop, PreFlop -> Flop -> Turn -> River ->
\* Showdown(true), any betting stage -> Showdown(true or false), Showdown ->
\* PreFlop or NotEnoughPlayers; within a hand no betting stage is skipped on a
\* normal advance and none is revisited.
C27_StageEdges ==
    [][/\ \A i \in 1..(Len(StagePath) - 1) :
             StagePath[i] # StagePath[i + 1] =>
                StageEdge(StagePath[i], StagePath[i + 1])
       /\ StartsFromRest]_vars

\* C27, amended: every stage change follows one of those edges, or is the
\* change from a betting stage to NotEnoughPlayers made when the last
\* connected seated player leaves; within a hand no betting stage is skipped
\* on a normal advance and none is revisited.
C27_StageEdgesOrAbandon ==
    [][/\ \A i \in 1..(Len(StagePath) - 1) :
             StagePath[i] # StagePath[i + 1] =>
                \/ StageEdge(StagePath[i], StagePath[i + 1])
                \/ /\ result'.op = "leave"
                   /\ StagePath[i] \in BettingStages
                   /\ StagePath[i + 1] = "NotEnoughPlayers"
                   /\ \A k \in 1..Len(room.players) :
                         room.players[k].id # result'.user =>
                            ~room.players[k].is_connected
       /\ StartsFromRest]_vars

\* the last action ended the river, went through Showdown(true) and started
\* the next hand
C27_Witness ==
    /\ result.op = "take_action"
    /\ \E i, j, n \in 1..Len(log) :
          /\ i < j /\ j < n
          /\ log[i].ev = "end_stage" /\ log[i].stage = "River"
          /\ IsRoomEvent(log[j]) /\ log[j].room.stage = "Showdown(true)"
          /\ IsRoomEvent(log[n]) /\ log[n].room.stage = "PreFlop"

\* a join that finds the room in NotEnoughPlayers with a player seated
\* starts the hand
SecondSeatStarts ==
    (/\ result'.op = "join"
     /\ room.stage = "NotEnoughPlayers"
     /\ Len(room.players) >= 1) => room'.stage = "PreFlop"

\* C28: the room is in NotEnoughPlayers only while fewer than two players are
\* seated: the join that seats the second player moves the room to PreFlop
\* within the call, and no sequence of joins, leaves and actions leaves the
\* room in NotEnoughPlayers with two or more players seated.
C28_NotEnoughPlayers ==
    /\ [](room.stage = "NotEnoughPlayers" => Len(room.players) < 2)
    /\ [][SecondSeatStarts]_vars

\* seat k of r has position pos and bet bet
Sits(r, k, pos, bet) == r.players[k].position = pos /\ r.players[k].bet = bet

\* the seat n steps clockwise of seat d
Clockwise(r, d, n) == ((d - 1 + n) % Len(r.players)) + 1

\* the positions and blinds of a hand that has just started
BlindsPosted(r) ==
    IF Len(r.players) = 2
    THEN \E d \in 1..2 :
            /\ Sits(r, d, "DealerAndSmallBlind", SMALL_BLIND)
            /\ Sits(r, Clockwise(r, d, 1), "BigBlind", BIG_BLIND)
    ELSE /\ Len(r.players) >= 3
         /\ \E d \in 1..Len(r.players) :
               /\ r.players[d].position = "Dealer"
               /\ Sits(r, Clockwise(r, d, 1), "SmallBlind", SMALL_BLIND)
               /\ Sits(r, Clockwise(r, d, 2), "BigBlind", BIG_BLIND)
               /\ \A n \in 3..(Len(r.players) - 1) :
                     Sits(r, Clockwise(r, d, n), "Normal", 0)

\* C29: immediately after every hand start with n seated players, for n = 2
\* the seats are one DealerAndSmallBlind with bet 1 and one BigBlind with bet
\* 2; for n >= 3 there is exactly one Dealer, one SmallBlind with bet 1 and
\* one BigBlind with bet 2 in consecutive clockwise seats, and every other
\* seat is Normal with bet 0.
C29_BlindsPosted == Starts(log) # {} => BlindsPosted(room)

\* the dealer seat of r2 is the seat immediately clockwise of the one of r1
Rotated(r1, r2) ==
    \E d \in 1..Len(r1.players) :
       /\ DealerSeats(r1) = {d}
       /\ DealerSeats(r2) = {Clockwise(r1, d, 1)}

\* C30: dealer rotation.  When the same players stay seated over two
\* consecutive hands, the dealer seat (Dealer or DealerAndSmallBlind) of the
\* later hand is the seat immediately clockwise of the earlier hand's dealer
\* seat.
C30_DealerRotation ==
    [][(/\ Starts(log') # {}
        /\ room.stage \in BettingStages
        /\ Ids(room'.players) = Ids(room.players)) =>
          Rotated(room, room')]_vars

\* three players stayed seated from a showdown to the next hand, whose dealer
\* is the next seat
C30_Witness ==
    \E j, n \in 1..Len(log) :
       /\ j < n
       /\ RevealsShowdown(log[j])
       /\ AnnouncesPreFlop(log[n])
       /\ Len(log[j].room.players) = 3
       /\ Ids(log[j].room.players) = Ids(log[n].room.players)
       /\ Rotated(log[j].room, log[n].room)
       /\ room = log[n].room

\* the seats of r holding one of the positions
SeatsAt(r, positions) ==
    {k \in 1..Len(r.players) : r.players[k].position \in positions}

\* the id of the first seat clockwise of seat d (d itself tried last) whose
\* player has not folded and has chips, or None
FirstToAct(r, d) ==
    LET ns == {n \in 1..Len(r.players) : Eligible(r.players[Clockwise(r, d, n)])}
    IN  IF ns = {} THEN None ELSE r.players[Clockwise(r, d, Min(ns))].id

\* the turn of r is on the first player to act after the one seat of positions
TurnAfter(r, positions) ==
    \E d \in SeatsAt(r, positions) :
       /\ SeatsAt(r, positions) = {d}
       /\ r.player_in_turn = FirstToAct(r, d)

\* C31: first actor.  Right after a hand starts, player_in_turn is the first
\* non-folded seat with chips clockwise after the BigBlind; right after
\* entering Flop, Turn or River it is the first such seat clockwise after the
\* dealer.
C31_FirstActor ==
    [][/\ Starts(log') # {} => TurnAfter(room', {"BigBlind"})
       /\ (room'.stage \in {"Flop", "Turn", "River"} /\ room'.stage # room.stage)
             => TurnAfter(room', {"Dealer", "DealerAndSmallBlind"})]_vars

\* the room at the end of the showdown r, the pots paid
Settled(r, eval) ==
    split_pot(Working(r), find_winners(Working(r), eval).v.winners)

\* the players of r who stay for the next hand, the seated ones first, each
\* list in its order of arrival
Staying(r) ==
    SelectSeq(r.players, LAMBDA p : p.is_connected /\ p.chips > 0)
    \o SelectSeq(r.player_joining_next_round,
                 LAMBDA p : p.is_connected /\ p.chips > 0)

\* the seats of the room x.r are the players who stay of r, with their chips,
\* and nobody waits
Purged(r, x) ==
    /\ Ids(x.r.players) = Ids(Staying(r))
    /\ \A k \in 1..Len(x.r.players) :
          /\ x.r.players[k].is_connected
          /\ x.r.players[k].chips + x.r.players[k].bet = Staying(r)[k].chips
    /\ x.r.player_joining_next_round = <<>>

\* x, what proceed returns at the end of the showdown r, starts a hand with
\* the players who stay if they are two or more, and goes to NotEnoughPlayers
\* otherwise
NextHand(r, x) ==
    /\ Purged(r, x)
    /\ IF Len(Staying(r)) >= 2
       THEN x.r.stage = "PreFlop" /\ Starts(x.r.log) # {}
       ELSE x.r.stage = "NotEnoughPlayers" /\ Starts(x.r.log) = {} /\ IsOk(x)

\* the room with one more seat
Seated(r, player) == [r EXCEPT !.players = Append(@, player)]

\* C32: at every hand start, every disconnected or zero-chip player has been
\* removed from the seated and the waiting list, the remaining waiting
\* players have been appended after the remaining seated players in arrival
\* order, and the waiting list is empty; if fewer than two players remain
\* after this purge at the end of a showdown, the room goes to
\* NotEnoughPlayers instead of starting a hand.
C32_SeatingPurge ==
    /\ \A i \in 1..Len(log) :
          RevealsShowdown(log[i]) =>
             \A eval \in EvalsFor(log[i].room) :
                IsOk(Settled(log[i].room, eval)) =>
                   NextHand(Settled(log[i].room, eval).r,
                            proceed(Settled(log[i].room, eval).r))
    /\ \A u \in scenario.users, b \in scenario.buy_ins :
          Starts(join_player(Working(room), NewPlayer(u, b)).r.log) # {} =>
             Purged(Seated(room, NewPlayer(u, b)),
                    join_player(Working(room), NewPlayer(u, b)))

\* a showdown with a player waiting has ended with a seated player out of chips
\* or gone, and the next hand has started without that player and with the
\* one who waited in the last seat
C32_Witness ==
    \E j, n \in 1..Len(log) :
       /\ j < n
       /\ RevealsShowdown(log[j])
       /\ AnnouncesPreFlop(log[n])
       /\ room = log[n].room
       /\ Len(log[j].room.player_joining_next_round) = 1
       /\ Len(room.players) = Len(log[j].room.players)
       /\ Ids(room.players) # Ids(log[j].room.players)
       /\ room.players[Len(room.players)].id
             = log[j].room.player_joining_next_round[1].id
       /\ room.player_joining_next_round = <<>>

\* the room after player_id has left r
AfterLeave(r, player_id) == Unlogged(leave_player(Working(r), player_id).r)

\* C33: leave_player is idempotent.  From any room state, leave_player(id)
\* called twice in a row leaves the room in exactly the state that a single
\* leave_player(id) produces.
C33_LeaveIdempotent ==
    \A u \in scenario.users :
       AfterLeave(AfterLeave(room, u), u) = AfterLeave(room, u)

\* a player has left a hand in progress and is still in a seat, marked
\* disconnected and folded, next to a connected one: leaving again changes
\* nothing
C33_Witness ==
    /\ result.op = "leave"
    /\ room.stage \in BettingStages
    /\ \E k \in 1..Len(room.players) :
          /\ room.players[k].id = result.user
          /\ ~room.players[k].is_connected
          /\ room.players[k].has_folded
    /\ AfterLeave(room, result.user) = room

\* the payloads of s with the greatest timestamp
Latest(s) ==
    SelectSeq(s, LAMBDA p : \A i \in 1..Len(s) : p.timestamp >= s[i].timestamp)

\* the cell of stream holds the payload of the greatest timestamp received
\* since its last reset (of those, the one that arrived first), and nothing
\* when none arrived
KeepsLatest(stream) ==
    IF client.received[stream] = <<>> THEN client.cell[stream] = <<>>
    ELSE client.cell[stream] = <<Head(Latest(client.received[stream]))>>

\* a payload replaces the one stored only if its timestamp is strictly greater
ReplacesWithNewer(stream) ==
    (/\ client.cell[stream] # <<>>
     /\ client'.cell[stream] # <<>>
     /\ client'.cell[stream] # client.cell[stream])
       => Head(client'.cell[stream]).timestamp > Head(client.cell[stream]).timestamp

\* C34: for each client stream (room, hand, outcome), a received payload
\* replaces the stored one only when its timestamp is strictly greater than
\* the stored payload's; so for any arrival order the stored payload is the
\* one with the greatest timestamp received since the cell was last reset,
\* and a payload older than the stored one is dropped.
C34_LatestPayloadKept ==
    /\ [](\A stream \in Streams : KeepsLatest(stream))
    /\ [][\A stream \in Streams : ReplacesWithNewer(stream)]_vars

\* a stream delivered a payload, then a newer one, then one older than both:
\* the cell holds the second
C34_Witness ==
    \E stream \in Streams :
       /\ Len(client.received[stream]) = 3
       /\ client.received[stream][1].timestamp = 2
       /\ client.received[stream][2].timestamp = 3
       /\ client.received[stream][3].timestamp = 1
       /\ client.cell[stream] = <<client.received[stream][2]>>

\* some player of r who has not folded and has chips has bet less than the
\* highest bet among the players who have not folded
Unmatched(r) ==
    \E k \in 1..Len(InPlayWithChips(r)) :
       InPlayWithChips(r)[k].bet < max_bet_in_play(InPlay(r))

\* C35: a betting stage never advances to the next street while some
\* non-folded player with chips has a bet lower than the highest bet among
\* the non-folded players: after a raise or an all-in every other non-folded
\* player with chips must call, raise, go all-in or fold before further
\* community cards are dealt.
C35_BetsMatchedBeforeNextStreet ==
    \A a \in scenario.actions, oc \in BOOLEAN :
       (Accepted(a, oc) /\ Unmatched(AfterAction(a, oc))) =>
          ~Advances(Taken(a, oc))

\* the ids in the room, the seated players first
AllIds(r) == Ids(r.players \o r.player_joining_next_round)

\* C36: player ids are unique in a room.  After any sequence of join, leave
\* and take_action operations (the same user joining twice, and a user
\* leaving and joining again before the next hand starts, included), no
\* player id occurs more than once across the seated list and the waiting
\* list.
C36_UniqueIds ==
    \A i, j \in 1..Len(AllIds(room)) :
       AllIds(room)[i] = AllIds(room)[j] => i = j

\* C37: chips that a leave has returned to the user's balance can no longer
\* be wagered.  Once a player's leave_player has completed, no take_action by
\* that player is applied to the room, even when the request's check of the
\* room membership ran before the leave completed and the player is still
\* named by player_in_turn.  (An action is applied when the call returns Ok.)
C37_NoActionAfterLeave ==
    [][(result'.op = "take_action" /\ ~current_room[result'.user]) =>
          result'.res # "Ok"]_vars

\* C38: requests that arrive for a room while its showdown pause is in
\* progress are eventually served.  With the room lock held across the
\* asynchronous sleeps and a bounded pool of worker threads, the lock holder
\* always resumes, finishes the showdown and releases the lock, however many
\* requests are blocked waiting for that lock.
C38_ShowdownReleasesLock == ShowdownPause ~> lock = {}

\* C39: a hand start always succeeds: whenever a call has started a hand and
\* leaves the room in PreFlop, the call returned Ok and a first actor is in
\* turn, whatever chips the seated players hold.
C39_HandStartSucceeds ==
    (Starts(log) # {} /\ room.stage = "PreFlop") =>
       /\ result.res = "Ok"
       /\ room.player_in_turn # None

\* the seat the latest join of user u has added to room r
Joiner(r, u) ==
    LET all == r.players \o r.player_joining_next_round
    IN  all[Max({k \in 1..Len(all) : all[k].id = u})]

\* C40: a join that succeeds has a buy-in above 0 and within the balance of the
\* user, lowers the balance by exactly the buy-in and gives the player exactly
\* the buy-in in chips (a blind posted by the same call counted in), whatever
\* buy-in the client sent.
C40_BuyInWithinBalance ==
    [][(result'.op = "join" /\ result'.res = "Ok") =>
          LET u == result'.user
              buy_in == balance[u] - balance'[u]
              p == Joiner(room', u)
          IN  /\ 0 < buy_in
              /\ buy_in <= balance[u]
              /\ p.chips + p.bet = buy_in]_vars

====
